---- MODULE Spec2Model ----
(***************************************************************************)
(* State-machine model of the voice front-ends of the repository:          *)
(*   - the realtime client wrappers (voicelive_client.py,                  *)
(*     voicelive_modelclient.py): connect / send / receive / dispatch,     *)
(*   - the chat apps built on them (app.py, model_app.py and the older     *)
(*     copy of app.py kept as unnamed/part_000): the session key/value     *)
(*     store and the handlers that mirror server events into chat messages,*)
(*   - the WebSocket relay (voice_live_proxy_aiohttp.py),                  *)
(*   - the dashboard receive loop (streamlit_voice_app.py),                *)
(*   - the process-wide connection state of chainlit_voice_app.py.         *)
(* Python strings are TLA+ strings; None and an absent dictionary key are  *)
(* the tokens NoneVal and Missing.                                         *)
(***************************************************************************)
EXTENDS Integers, Sequences, FiniteSets, TLC

VARIABLES
    \* ---- realtime client wrapper (VoiceLiveClient / VoiceLiveModelClient)
    variant,        \* which chat app runs: "app", "model_app", "copy" (part_000)
    ws,             \* self.ws: "None" or "conn"
    sockOpen,       \* the socket behind self.ws is open
    recvAlive,      \* the task running receive() has not ended
    nrecv,          \* server messages taken by receive() so far
    nuser,          \* typed chat messages so far
    nconn,          \* connect() calls so far
    msgLog,         \* the server messages receive() took, in arrival order
    sent,           \* envelopes written to the socket, in order
    fnCalls,        \* tool functions invoked: [name, call_id, result]
    doneLog,        \* per handled response.done / committed: what the loop sent
    \* ---- asyncio event loop
    ready,          \* FIFO of handler tasks that are ready to run
    waiting,        \* handler tasks suspended in an await
    dispatched,     \* dispatch() calls: [idx, name]
    started,        \* handler tasks in the order they started: [idx, name]
    \* ---- chainlit user session (cl.user_session) and UI
    uuidCtr,        \* number of uuid4() values drawn so far
    track_id,
    transcript,
    user_input_transcript,
    chat,           \* cl.Message(...).send()/.update() calls, in order
    audioOut,       \* send_audio_chunk calls: [track, data, epoch]
    trackHistory,   \* every value track_id has had, oldest first
    handledDeltas,  \* conversation.text.delta events handled: [item_id, transcript]
    \* ---- WebSocket relay (voice_live_proxy_aiohttp.py), one browser connection
    pxPhase,        \* "accepted", "forwarding" or "closed"
    pxClose,        \* close code the relay sent to the browser ("" when none)
    azure_url,      \* [project_name, agent_id, token] of the upstream URL and headers
    pxRequest,      \* what the handler was given: query string, environment, token
    clientFrames,   \* frames the browser put on its socket, in order
    azureFrames,    \* frames the service put on its socket, in order
    c2aPos,         \* frames forward_client_to_azure has taken from ws_client
    a2cPos,         \* frames forward_azure_to_client has taken from ws_azure
    toAzure,        \* frames written to ws_azure, in order
    toClient,       \* frames written to ws_client, in order: [type, data, origin]
    c2aAlive,       \* forward_client_to_azure is running
    a2cAlive,       \* forward_azure_to_client is running
    clientOpen,     \* the browser's side of ws_client is open
    azureOpen,      \* the service's side of ws_azure is open
    \* ---- dashboard (streamlit_voice_app.py)
    stop_event,             \* the module's threading.Event
    streaming_active,       \* st.session_state.streaming_active
    recvThread,             \* receive_audio_and_playback: "none", "running", "ended"
    recvExit,               \* how it left its loop: "", "stop" or "error"
    audio_player,           \* [playing, queue, terminated]
    connQueue,              \* connection._message_queue
    ndash,                  \* events the socket thread has queued so far
    current_response_id,
    last_audio_item_id,
    messages,               \* st.session_state.messages
    current_assistant_response,
    assistant_responding,
    user_speaking,
    dashSent,               \* what the loop wrote with connection.send
    dashConnected,          \* connection._connected
    dashLog,                \* per event the loop handled: [event, queued]
    sendThread,             \* the thread of listen_and_send_audio that was started last
    lingering,              \* threads of earlier starts that are still running
    \* ---- chainlit_voice_app.py: module-level state shared by all chat sessions
    connection_state,       \* the module's dict (connection: 0 is None)
    voice_stop_event,       \* the module's threading.Event
    conns,                  \* VoiceLiveConnection objects made: [owner, state, closedBy]
    sessions,               \* chat sessions between on_chat_start and on_chat_end
    nvoice,                 \* user actions so far
    ws_message_queue,       \* the module's queue of frames from the socket thread
    voice_audio_player,     \* the module's AudioPlayerAsync: [is_playing, audio_queue]
    voice_response,         \* per chat session: current_assistant_response
    voiceLog,               \* per handled frame: what handle_websocket_message did
    nvmsg,                  \* frames the socket thread has queued so far
    message_processor,      \* per chat session: its process_websocket_messages task
    audio_thread,           \* connection_state['audio_thread'] and its audio_callback
    voice_appends,          \* per input_audio_buffer.append written: the state then
    voice_stopped,          \* the stop flag was set, no voice conversation started since
    \* ---- direct calls of the client's methods (send, append_input_audio, ...)
    callLog,                \* per call: what it was given and what it did
    \* ---- the relay's token cache (voice_live_proxy_aiohttp.py, get_fresh_token)
    self_token,             \* self.token
    token_expires,          \* self.token_expires: <<>> for None, <<local minute>>
    clock,                  \* the time, in minutes since the epoch
    ncred,                  \* calls of credential.get_token so far
    tokenLog                \* per call of get_fresh_token: what it saw and did

clientVars == <<variant, ws, sockOpen, recvAlive, nrecv, nuser, nconn, msgLog, sent,
                fnCalls, doneLog>>
loopVars == <<ready, waiting, dispatched, started>>
sessionVars == <<uuidCtr, track_id, transcript, user_input_transcript, chat, audioOut,
                 trackHistory, handledDeltas>>
appVars == <<clientVars, loopVars, sessionVars>>
proxyVars == <<pxPhase, pxClose, azure_url, pxRequest, clientFrames, azureFrames, c2aPos, a2cPos,
               toAzure, toClient, c2aAlive, a2cAlive, clientOpen, azureOpen>>
dashVars == <<stop_event, streaming_active, recvThread, recvExit, audio_player, connQueue,
              ndash, current_response_id, last_audio_item_id, messages,
              current_assistant_response, assistant_responding, user_speaking, dashSent,
              dashConnected, dashLog, sendThread, lingering>>
voiceMsgVars == <<ws_message_queue, voice_audio_player, voice_response, voiceLog, nvmsg,
                  message_processor>>
captureVars == <<audio_thread, voice_appends, voice_stopped>>
voiceVars == <<connection_state, voice_stop_event, conns, sessions, nvoice, voiceMsgVars,
               captureVars>>
tokenVars == <<self_token, token_expires, clock, ncred, tokenLog>>
apiVars == <<callLog, tokenVars>>
\* everything outside the chat apps app.py / model_app.py / part_000
otherVars == <<proxyVars, dashVars, voiceVars, apiVars>>
vars == <<appVars, otherVars>>

\* ---------------------------------------------------------------- bounds
MaxMsgs == 3        \* server messages per run of the chat specification
MaxUserMsgs == 1    \* typed chat messages per run
MaxConnects == 1    \* connect() calls per run
MaxDispatchMsgs == 2    \* server messages per run when every handler runs
MaxFrames == 2      \* frames each peer of the relay sends per run
MaxDashMsgs == 3    \* frames the dashboard's socket thread queues per run
MaxVoiceOps == 5    \* user actions in chainlit_voice_app per run
MaxCalls == 2       \* direct calls of send_user_message_content / append_input_audio
MaxSendCalls == 2   \* direct calls of send per run
MaxClientMsgs == 2  \* server messages per run next to direct calls
MaxVoiceMsgs == 3   \* frames the socket thread of chainlit_voice_app queues per run
MaxTokenCalls == 3  \* calls of get_fresh_token per run
MaxClock == 4       \* minutes the clock advances per run
MaxLingering == 1   \* threads of earlier starts that are still running, per kind
MaxAppends == 2     \* input_audio_buffer.append frames the capture thread writes per run

\* ---------------------------------------------------------------- values
NoneVal == "<None>"         \* Python None
Missing == "<missing>"      \* a key the JSON object does not have

Truthy(v) == v # NoneVal /\ v # Missing /\ v # ""

\* str(uuid4()): the n-th value drawn; distinct draws give distinct values
Uuid(n) == "uuid-" \o ToString(n)

Variants == {"app", "model_app", "copy"}

\* A server message: the text frame and, when it is JSON, the keys used by the code.
Msg(raw, type, delta, item_id, tr, status, output) ==
    [raw |-> raw, type |-> type, delta |-> delta, item_id |-> item_id,
     transcript |-> tr, status |-> status, output |-> output]

JsonMsg(type) == Msg("json", type, Missing, Missing, Missing, Missing, <<>>)

\* utils.base64_to_array_buffer(delta).tobytes(), on the payloads used here
base64_to_array_buffer(delta) ==
    CASE delta = "" -> ""
      [] delta = "AQA=" -> "0100"
      [] delta = "AgA=" -> "0200"
      [] OTHER -> NoneVal

\* An event handed to the UI handlers (the _event dictionaries of receive()).
Event(audio, tr, item_id) == [audio |-> audio, transcript |-> tr, item_id |-> item_id]

\* event.get(key): None when the key is absent
Get(v) == IF v = Missing THEN NoneVal ELSE v

\* ======================================================================
\* Realtime client wrapper: voicelive_client.py / voicelive_modelclient.py
\* ======================================================================

\* openai_realtime.on(...): the callback names each chat app registers
Registered(v) ==
    CASE v = "app" ->
           {"conversation.updated", "conversation.interrupted",
            "conversation.text.delta", "conversation.input.text.done",
            "user.speech.started", "user.speech.stopped"}
      [] v = "model_app" ->
           {"conversation.updated", "conversation.interrupted",
            "conversation.text.delta", "conversation.input.text.done",
            "conversation.message.interrupted"}
      [] OTHER ->
           {"conversation.updated", "conversation.interrupted",
            "conversation.text.delta", "conversation.input.text.done"}

Task(name, ev, idx) == [name |-> name, ev |-> ev, idx |-> idx, pc |-> 1, msg_id |-> NoneVal]

\* Faulty variant, for comparison: a new task is put in front of the tasks that are ready
dispatch_front(q, name, ev, idx) ==
    IF name \in Registered(variant) THEN <<Task(name, ev, idx)>> \o q ELSE q

\* dispatch(): asyncio.create_task(handler(event)) for every registered handler;
\* create_task puts the new task at the end of the loop's ready queue.
dispatch(q, name, ev, idx) ==
    IF name \in Registered(variant) THEN Append(q, Task(name, ev, idx)) ELSE q

RECURSIVE dispatchAll(_, _, _)
dispatchAll(q, ds, idx) ==
    IF ds = <<>> THEN q
    ELSE dispatchAll(dispatch(q, Head(ds).name, Head(ds).ev, idx), Tail(ds), idx)

\* is_connected()
is_connected == ws # "None"

\* send(): raises when not connected; ws.send raises on a closed socket
CanSend == is_connected /\ sockOpen

\* _generate_id(prefix): the prefix and the clock's milliseconds
_generate_id(prefix) == prefix \o "<ms>"

\* The JSON text send() writes: event_id, type, and the keys of data used here
Envelope(type, item, call_id) ==
    [type |-> type, item |-> item, call_id |-> call_id, event_id |-> _generate_id("evt_")]

\* A value passed as `data`: its Python type, whether it is falsy (None, {}, [])
\* and, for a dictionary, its 'type' key (absent in every call the code makes) and
\* the 'type' of its 'item'.
Data(kind, falsy, type, item) ==
    [kind |-> kind, falsy |-> falsy, type |-> type, item |-> item]

NoData == Data("NoneType", TRUE, Missing, "")
EmptyDict == Data("dict", TRUE, Missing, "")
DictOf(item) == Data("dict", FALSE, Missing, item)
DictWithType(type) == Data("dict", FALSE, type, "")
EmptyList == Data("list", TRUE, Missing, "")
ListOf == Data("list", FALSE, Missing, "")

\* send(event_name, data): what it raises ("" when it returns) and what it writes
\* to the socket. `data or {}` turns every falsy value into {}; **data lets the
\* keys of data replace 'type'; ws.send raises on a closed socket.
send(event_name, data) ==
    IF ~is_connected
    THEN [raised |-> "Voice Live API is not connected", written |-> <<>>]
    ELSE LET d == IF data.falsy THEN EmptyDict ELSE data
         IN  IF d.kind # "dict"
             THEN [raised |-> "data must be a dictionary", written |-> <<>>]
             ELSE IF ~sockOpen
             THEN [raised |-> "ConnectionClosed", written |-> <<>>]
             ELSE [raised |-> "",
                   written |-> <<Envelope(IF d.type # Missing THEN d.type
                                          ELSE event_name, d.item, NoneVal)>>]

\* tools.tools_list: the names of the functions declared to the model, in order
tools_list ==
    <<"perform_search_based_qna", "create_delivery_order", "perform_call_log_analysis",
      "search_products_by_category", "order_products">>

\* Faulty variant, for comparison: a declared function without an entry in the table
available_functions_short ==
    {"perform_search_based_qna", "create_delivery_order", "perform_call_log_analysis",
     "search_products_by_category"}

\* tools.available_functions: the names
available_functions ==
    {"perform_search_based_qna", "create_delivery_order", "perform_call_log_analysis",
     "search_products_by_category", "order_products"}

\* the keyword parameters each of these functions takes
Params(name) ==
    CASE name = "perform_search_based_qna" -> "{query}"
      [] name = "create_delivery_order" -> "{order_id,destination}"
      [] name = "perform_call_log_analysis" -> "{call_log}"
      [] name = "search_products_by_category" -> "{category}"
      [] name = "order_products" -> "{product_id,quantity}"
      [] OTHER -> NoneVal

\* perform_call_log_analysis returns an error text instead of raising
CatchesItsErrors == {"perform_call_log_analysis"}

\* json.loads(arguments) returns an object for these texts and raises otherwise
JsonObjects ==
    {"{query}", "{order_id,destination}", "{call_log}", "{category}",
     "{product_id,quantity}", "{foo}"}

Item(type, name, arguments, call_id) ==
    [type |-> type, name |-> name, arguments |-> arguments, call_id |-> call_id]

\* What one pass of the receive loop does: alive (the loop goes on), the events it
\* dispatches, the envelopes it sends, the tool calls it makes, whether the socket
\* closed while it was suspended in a send.
Effect(alive, disp, sends, calls, closed) ==
    [alive |-> alive, disp |-> disp, sends |-> sends, calls |-> calls, closed |-> closed]

NoEffect == Effect(TRUE, <<>>, <<>>, <<>>, FALSE)
Raised == Effect(FALSE, <<>>, <<>>, <<>>, FALSE)
Dispatch(name, ev) == Effect(TRUE, <<[name |-> name, ev |-> ev]>>, <<>>, <<>>, FALSE)

\* Faulty variant, for comparison: the UI is told before the second send
send_user_message_content_early(content, drop) ==
    IF content = <<>> THEN NoEffect
    ELSE LET first == send("conversation.item.create", DictOf("message"))
             told == <<[name |-> "conversation.message.interrupted",
                        ev |-> Event(Missing, Missing, Missing)]>>
         IN  IF first.raised # "" THEN Raised
             ELSE IF drop THEN Effect(FALSE, told, first.written, <<>>, TRUE)
             ELSE Effect(TRUE, told,
                         first.written \o send("response.create", DictOf("")).written,
                         <<>>, FALSE)

\* send_user_message_content(content): nothing for empty content; otherwise
\* conversation.item.create, response.create, then the dispatch. A send that raises
\* ends the call (alive is FALSE). drop: the socket closes between the two sends.
send_user_message_content(content, drop) ==
    IF content = <<>> THEN NoEffect
    ELSE LET first == send("conversation.item.create", DictOf("message"))
         IN  IF first.raised # "" THEN Raised
             ELSE IF drop THEN Effect(FALSE, <<>>, first.written, <<>>, TRUE)
             ELSE Effect(TRUE,
                         <<[name |-> "conversation.message.interrupted",
                            ev |-> Event(Missing, Missing, Missing)]>>,
                         first.written \o send("response.create", DictOf("")).written,
                         <<>>, FALSE)

\* Faulty variant, for comparison: the audio is followed by a request to respond
append_input_audio_responds(array_buffer) ==
    IF Len(array_buffer) > 0
    THEN LET r == send("input_audio_buffer.append", DictOf(""))
         IN  Effect(r.raised = "", <<>>,
                    r.written \o send("response.create", DictOf("")).written, <<>>, FALSE)
    ELSE NoEffect

\* append_input_audio(array_buffer): one input_audio_buffer.append when the buffer
\* is not empty
append_input_audio(array_buffer) ==
    IF Len(array_buffer) > 0
    THEN LET r == send("input_audio_buffer.append", DictOf(""))
         IN  Effect(r.raised = "", <<>>, r.written, <<>>, FALSE)
    ELSE NoEffect

\* Faulty variant, for comparison: response.create is sent before the function's output
Replies_create_first(call_id) ==
    <<Envelope("response.create", "", NoneVal),
      Envelope("conversation.item.create", "function_call_output", call_id)>>

\* The two sends that follow a tool call: the function's output, then response.create
Replies(call_id) ==
    <<Envelope("conversation.item.create", "function_call_output", call_id),
      Envelope("response.create", "", NoneVal)>>

\* VoiceLiveModelClient.receive, the response.done branch (inside try/except):
\* only output[0] is looked at; json.loads(arguments), then the lookup in
\* available_functions, then the call, then the two sends. Any exception ends the
\* branch and is printed. result is what the tool function does when it is called,
\* drop says that the socket closes between the two sends.
response_done(m, result, drop) ==
    IF Get(m.status) # "completed" THEN NoEffect
    ELSE IF Len(m.output) = 0 THEN NoEffect                       \* IndexError, caught
    ELSE LET item == m.output[1]
             ran == IF Params(item.name) # item.arguments THEN "raised"   \* TypeError
                    ELSE IF item.name \in CatchesItsErrors THEN "returned"
                    ELSE result
             call == <<[name |-> item.name, call_id |-> item.call_id, result |-> ran,
                        at |-> Len(sent)]>>
         IN  IF Get(item.type) # "function_call" THEN NoEffect
             ELSE IF item.arguments \notin JsonObjects THEN NoEffect   \* json.loads raises
             ELSE IF item.name \notin available_functions THEN NoEffect \* KeyError
             ELSE IF ran = "raised" THEN Effect(TRUE, <<>>, <<>>, call, FALSE)
             ELSE IF ~CanSend THEN Effect(TRUE, <<>>, <<>>, call, FALSE)
             ELSE IF drop THEN Effect(TRUE, <<>>, <<Replies(item.call_id)[1]>>, call, TRUE)
             ELSE Effect(TRUE, <<>>, Replies(item.call_id), call, FALSE)

\* receive(): the body of `async for message in self.ws`, for one message
receive(m, result, drop) ==
    IF m.raw # "json" THEN Raised                                 \* json.loads(message)
    ELSE IF m.type = Missing THEN Raised                          \* event["type"]
    ELSE CASE m.type = "response.audio.delta" ->
                IF m.delta = Missing \/ base64_to_array_buffer(m.delta) = NoneVal
                THEN Raised
                ELSE Dispatch("conversation.updated",
                              Event(base64_to_array_buffer(m.delta), Missing, Missing))
           [] m.type = "response.audio.done" ->
                Dispatch("conversation.updated", Event(Missing, m.transcript, m.item_id))
           [] m.type = "input_audio_buffer.committed" ->
                IF CanSend
                THEN Effect(TRUE, <<>>, <<Envelope("response.create", "", NoneVal)>>,
                            <<>>, FALSE)
                ELSE Raised
           [] m.type = "input_audio_buffer.speech_started" ->
                Dispatch("conversation.interrupted", Event(Missing, Missing, Missing))
           [] m.type = "input_audio_buffer.speech_stopped" -> NoEffect
           [] m.type = "response.audio_transcript.delta" ->
                IF m.delta = Missing \/ m.item_id = Missing THEN Raised
                ELSE Dispatch("conversation.text.delta", Event(Missing, m.delta, m.item_id))
           [] m.type = "conversation.item.input_audio_transcription.completed" ->
                IF m.transcript = Missing THEN Raised
                ELSE Dispatch("conversation.input.text.done",
                              Event(Missing, m.transcript, Missing))
           [] m.type = "response.done" ->
                IF variant = "model_app" THEN response_done(m, result, drop) ELSE NoEffect
           [] OTHER -> NoEffect

\* One server message goes through the receive loop.
Receive(m, limit) ==
    /\ UNCHANGED otherVars
    /\ recvAlive
    /\ nrecv < limit
    /\ \E result \in {"returned", "raised"}, drop \in BOOLEAN :
         LET eff == receive(m, result, drop)
             idx == nrecv + 1
         IN  /\ recvAlive' = eff.alive
             /\ sockOpen' = (sockOpen /\ ~eff.closed)
             /\ sent' = sent \o eff.sends
             /\ fnCalls' = fnCalls \o eff.calls
             /\ doneLog' = IF m.raw = "json"
                              /\ m.type \in {"response.done", "input_audio_buffer.committed"}
                           THEN Append(doneLog, [idx |-> idx, from |-> Len(sent),
                                                 to |-> Len(sent) + Len(eff.sends),
                                                 result |-> IF eff.calls = <<>> THEN "none"
                                                            ELSE eff.calls[1].result,
                                                 open |-> CanSend /\ ~eff.closed])
                           ELSE doneLog
             /\ ready' = dispatchAll(ready, eff.disp, idx)
             /\ dispatched' = dispatched \o
                    [i \in 1..Len(eff.disp) |-> [idx |-> idx, name |-> eff.disp[i].name]]
    /\ nrecv' = nrecv + 1
    /\ msgLog' = Append(msgLog, m)
    /\ UNCHANGED <<variant, ws, nuser, nconn, waiting, started, sessionVars>>

\* The socket's message iterator ends once the socket is closed.
ReceiveEnds ==
    /\ UNCHANGED otherVars
    /\ recvAlive
    /\ ~sockOpen
    /\ recvAlive' = FALSE
    /\ UNCHANGED <<variant, ws, sockOpen, nrecv, nuser, nconn, msgLog, sent, fnCalls,
                   doneLog, loopVars, sessionVars>>

\* The peer closes the connection.
ServerClose ==
    /\ UNCHANGED otherVars
    /\ is_connected
    /\ sockOpen
    /\ sockOpen' = FALSE
    /\ UNCHANGED <<variant, ws, recvAlive, nrecv, nuser, nconn, msgLog, sent, fnCalls,
                   doneLog, loopVars, sessionVars>>

\* ======================================================================
\* Chat apps: app.py, model_app.py, unnamed/part_000
\* ======================================================================

ChatOp(op, id, author, content) ==
    [op |-> op, id |-> id, author |-> author, content |-> content]

\* @cl.on_audio_start: connect() opens the socket, starts receive() and sends
\* session.update; when connect() raises an ErrorMessage is shown.
OnAudioStart ==
    /\ UNCHANGED otherVars
    /\ nconn < MaxConnects
    /\ ~is_connected
    /\ ~recvAlive
    /\ nconn' = nconn + 1
    /\ \E ok \in BOOLEAN :
         IF ok
         THEN /\ ws' = "conn"
              /\ sockOpen' = TRUE
              /\ recvAlive' = TRUE
              /\ sent' = Append(sent, Envelope("session.update", "", NoneVal))
              /\ UNCHANGED <<uuidCtr, chat>>
         ELSE /\ chat' = Append(chat, ChatOp("send", Uuid(uuidCtr + 1), "Error",
                                             "Failed to connect to Voice Live API"))
              /\ uuidCtr' = uuidCtr + 1
              /\ UNCHANGED <<ws, sockOpen, recvAlive, sent>>
    /\ UNCHANGED <<variant, nrecv, nuser, msgLog, fnCalls, doneLog, loopVars, track_id,
                   transcript, user_input_transcript, audioOut, trackHistory,
                   handledDeltas>>

\* @cl.on_audio_end / on_chat_end / on_stop: disconnect()
OnEnd ==
    /\ UNCHANGED otherVars
    /\ is_connected
    /\ ws' = "None"
    /\ sockOpen' = FALSE
    /\ UNCHANGED <<variant, recvAlive, nrecv, nuser, nconn, msgLog, sent, fnCalls,
                   doneLog, loopVars, sessionVars>>

\* @cl.on_message with send_user_message_content: conversation.item.create, then
\* response.create, then dispatch of conversation.message.interrupted; a send that
\* raises ends the handler. drop: the socket closes between the two sends.
OnMessage ==
    /\ UNCHANGED otherVars
    /\ nuser < MaxUserMsgs
    /\ nuser' = nuser + 1
    /\ \E drop \in BOOLEAN :
         IF ~is_connected
         THEN /\ chat' = Append(chat, ChatOp("send", Uuid(uuidCtr + 1), "assistant",
                                "Please activate voice mode before sending messages!"))
              /\ uuidCtr' = uuidCtr + 1
              /\ UNCHANGED <<sent, sockOpen, ready, dispatched>>
         ELSE /\ UNCHANGED <<chat, uuidCtr>>
              /\ LET eff == send_user_message_content(<<"input_text">>, drop)
                 IN  /\ sent' = sent \o eff.sends
                     /\ sockOpen' = (sockOpen /\ ~eff.closed)
                     /\ ready' = dispatchAll(ready, eff.disp, 0)
                     /\ dispatched' = dispatched \o
                            [i \in 1..Len(eff.disp) |-> [idx |-> 0, name |-> eff.disp[i].name]]
    /\ UNCHANGED <<variant, ws, recvAlive, nrecv, nconn, msgLog, fnCalls, doneLog,
                   waiting, started, track_id, transcript, user_input_transcript,
                   audioOut, trackHistory, handledDeltas>>

\* ---- the event loop runs the task at the head of the ready queue
Running(name, pc) == ready # <<>> /\ Head(ready).name = name /\ Head(ready).pc = pc

Started(t) == IF t.pc = 1 THEN Append(started, [idx |-> t.idx, name |-> t.name])
              ELSE started

\* The running task finished.
Finish ==
    /\ ready' = Tail(ready)
    /\ started' = Started(Head(ready))
    /\ UNCHANGED waiting

\* The running task reached an await with `next` still to run: the awaited call
\* either returns at once or suspends the task until it is woken.
Await(next) ==
    /\ started' = Started(Head(ready))
    /\ \E yields \in BOOLEAN :
         IF yields
         THEN ready' = Tail(ready) /\ waiting' = waiting \cup {next}
         ELSE ready' = <<next>> \o Tail(ready) /\ UNCHANGED waiting

\* The awaited call of a suspended task completes: the task is ready again.
Wake ==
    /\ UNCHANGED otherVars
    /\ \E t \in waiting :
         /\ waiting' = waiting \ {t}
         /\ ready' = Append(ready, t)
    /\ UNCHANGED <<clientVars, dispatched, started, sessionVars>>

\* Faulty variant, for comparison: the track id read once, when the session was set up
ChunkTrack_initial == trackHistory[1]

\* track=cl.user_session.get("track_id"), read when the chunk is sent
ChunkTrack == track_id

\* handle_conversation_updated: play the chunk on the current track
handle_conversation_updated ==
    /\ UNCHANGED otherVars
    /\ Running("conversation.updated", 1)
    /\ LET _audio == Get(Head(ready).ev.audio)
       IN  audioOut' = IF Truthy(_audio)
                       THEN Append(audioOut, [kind |-> "chunk", track |-> ChunkTrack,
                                              data |-> _audio,
                                              epoch |-> Len(trackHistory)])
                       ELSE audioOut
    /\ Finish
    /\ UNCHANGED <<clientVars, dispatched, uuidCtr, track_id, transcript,
                   user_input_transcript, chat, trackHistory, handledDeltas>>

\* handle_conversation_interrupt: a new track id, then send_audio_interrupt();
\* model_app.py goes on to create the user placeholder (next definition).
handle_conversation_interrupt ==
    /\ UNCHANGED otherVars
    /\ Running("conversation.interrupted", 1)
    /\ track_id' = Uuid(uuidCtr + 1)
    /\ uuidCtr' = uuidCtr + 1
    /\ trackHistory' = Append(trackHistory, track_id')
    /\ audioOut' = Append(audioOut, [kind |-> "interrupt", track |-> NoneVal,
                                     data |-> "", epoch |-> Len(trackHistory')])
    /\ IF variant = "model_app"
       THEN Await([Head(ready) EXCEPT !.pc = 2])
       ELSE Finish
    /\ UNCHANGED <<clientVars, dispatched, transcript, user_input_transcript, chat,
                   handledDeltas>>

\* model_app.handle_conversation_interrupt after the await: the placeholder
handle_conversation_interrupt_placeholder ==
    /\ UNCHANGED otherVars
    /\ Running("conversation.interrupted", 2)
    /\ user_input_transcript' = <<Uuid(uuidCtr + 1), "">>
    /\ uuidCtr' = uuidCtr + 1
    /\ chat' = Append(chat, ChatOp("send", Uuid(uuidCtr + 1), "user", ""))
    /\ Finish
    /\ UNCHANGED <<clientVars, dispatched, track_id, transcript, audioOut, trackHistory,
                   handledDeltas>>

\* model_app.handle_conversation_message_interrupted
handle_conversation_message_interrupted ==
    /\ UNCHANGED otherVars
    /\ Running("conversation.message.interrupted", 1)
    /\ track_id' = Uuid(uuidCtr + 1)
    /\ uuidCtr' = uuidCtr + 1
    /\ trackHistory' = Append(trackHistory, track_id')
    /\ Finish
    /\ UNCHANGED <<clientVars, dispatched, transcript, user_input_transcript, chat,
                   audioOut, handledDeltas>>

\* Faulty variant, for comparison: the delta is put in front of the text
AppendDelta_front(text, delta) == delta \o text

\* _transcript = transcript_ref[1] + delta
AppendDelta(text, delta) == text \o delta

\* handle_conversation_thread_updated (app.py) /
\* handle_response_audio_transcript_updated (model_app.py, part_000): a delta for
\* the item of the session's transcript pair is appended and the message updated;
\* any other item id starts a new pair and sends a new message. part_000 goes on
\* to create the next user placeholder. (app.py's "pending user message" update
\* needs user.speech.started, which receive() never dispatches.)
handle_conversation_thread_updated ==
    /\ UNCHANGED otherVars
    /\ Running("conversation.text.delta", 1)
    /\ LET item_id == Get(Head(ready).ev.item_id)
           delta == Get(Head(ready).ev.transcript)
       IN  /\ handledDeltas' = Append(handledDeltas,
                                      [item_id |-> item_id, transcript |-> delta])
           /\ IF ~Truthy(delta)
              THEN /\ UNCHANGED <<transcript, chat>>
                   /\ Finish
              ELSE IF transcript[1] = item_id
              THEN /\ transcript' = <<item_id, AppendDelta(transcript[2], delta)>>
                   /\ chat' = Append(chat, ChatOp("update", item_id, "assistant",
                                                  AppendDelta(transcript[2], delta)))
                   /\ Finish
              ELSE /\ transcript' = <<item_id, delta>>
                   /\ chat' = Append(chat, ChatOp("send", item_id, "assistant", delta))
                   /\ IF variant = "copy"
                      THEN Await([Head(ready) EXCEPT !.pc = 2])
                      ELSE Finish
    /\ UNCHANGED <<clientVars, dispatched, uuidCtr, track_id, user_input_transcript,
                   audioOut, trackHistory>>

\* part_000, after the new assistant message was sent: the next user placeholder
handle_response_audio_transcript_placeholder ==
    /\ UNCHANGED otherVars
    /\ Running("conversation.text.delta", 2)
    /\ user_input_transcript' = <<Uuid(uuidCtr + 1), "">>
    /\ uuidCtr' = uuidCtr + 1
    /\ chat' = Append(chat, ChatOp("send", Uuid(uuidCtr + 1), "user", ""))
    /\ Finish
    /\ UNCHANGED <<clientVars, dispatched, track_id, transcript, audioOut, trackHistory,
                   handledDeltas>>

\* str.strip() on the transcripts used here
strip(t) ==
    CASE t = " " -> ""
      [] t = " hi " -> "hi"
      [] OTHER -> t

\* handle_user_input_transcript_done up to its await: the message whose id is in
\* the session's user_input_transcript pair gets the transcript
handle_user_input_transcript_done ==
    /\ UNCHANGED otherVars
    /\ Running("conversation.input.text.done", 1)
    /\ LET tr == Get(Head(ready).ev.transcript)
           msg_id == user_input_transcript[1]
       IN  /\ chat' = Append(chat,
                 CASE variant = "app" ->
                        IF Truthy(tr) /\ strip(tr) # ""
                        THEN ChatOp("update", msg_id, "user", tr)
                        ELSE ChatOp("update", msg_id, "user", "...")
                   [] variant = "model_app" -> ChatOp("update", msg_id, "user", tr)
                   [] OTHER ->
                        IF "1" # msg_id
                        THEN ChatOp("update", msg_id, "user", tr)
                        ELSE ChatOp("send", msg_id, "user", tr))
           /\ Await([Head(ready) EXCEPT !.pc = 2, !.msg_id = msg_id])
    /\ UNCHANGED <<clientVars, dispatched, uuidCtr, track_id, transcript,
                   user_input_transcript, audioOut, trackHistory, handledDeltas>>

\* handle_user_input_transcript_done after the await: a fresh pair
handle_user_input_transcript_reset ==
    /\ UNCHANGED otherVars
    /\ Running("conversation.input.text.done", 2)
    /\ user_input_transcript' = <<Uuid(uuidCtr + 1), "">>
    /\ uuidCtr' = uuidCtr + 1
    /\ Finish
    /\ UNCHANGED <<clientVars, dispatched, track_id, transcript, chat, audioOut,
                   trackHistory, handledDeltas>>

\* ---- server traffic of a conversation
AudioDelta(d) == Msg("json", "response.audio.delta", d, "A", Missing, Missing, <<>>)
AudioDone == Msg("json", "response.audio.done", Missing, "A", Missing, Missing, <<>>)
SpeechStarted == JsonMsg("input_audio_buffer.speech_started")
SpeechStopped == JsonMsg("input_audio_buffer.speech_stopped")
Committed == JsonMsg("input_audio_buffer.committed")
TextDelta(item_id, d) ==
    Msg("json", "response.audio_transcript.delta", d, item_id, Missing, Missing, <<>>)
InputDone(t) ==
    Msg("json", "conversation.item.input_audio_transcription.completed", Missing, "u",
        t, Missing, <<>>)

\* Item ids are made by the service ("A", "B"); they are never the placeholder id
\* "1" that init_rtclient stores in the session.
ChatMsgs ==
    {AudioDelta("AQA="), AudioDone, SpeechStarted,
     TextDelta("A", "x"), TextDelta("A", "y"), TextDelta("A", ""), TextDelta("B", "x"),
     InputDone("hi"), InputDone(" ")}

\* The chat sessions that can be open in the one server process
Sessions == {"s1", "s2"}

\* The relay before its handler has run: no upstream URL was built, no request was looked at
NoUrl == [project_name |-> Missing, agent_id |-> Missing, token |-> Missing]
NoRequest == [q_project |-> Missing, env_project |-> Missing, q_agent |-> Missing,
              env_agent |-> Missing, token |-> Missing, clientOpen |-> TRUE]

\* State after @cl.on_chat_start: the welcome message and init_rtclient()
Init ==
    /\ variant \in Variants
    /\ ws = "None"
    /\ sockOpen = FALSE
    /\ recvAlive = FALSE
    /\ nrecv = 0
    /\ nuser = 0
    /\ nconn = 0
    /\ msgLog = <<>>
    /\ sent = <<>>
    /\ fnCalls = <<>>
    /\ doneLog = <<>>
    /\ ready = <<>>
    /\ waiting = {}
    /\ dispatched = <<>>
    /\ started = <<>>
    /\ uuidCtr = 2
    /\ track_id = Uuid(2)
    /\ transcript = <<"1", "-">>
    /\ user_input_transcript = <<"1", "">>
    /\ chat = <<ChatOp("send", Uuid(1), "assistant", "Hi, Welcome!")>>
    /\ audioOut = <<>>
    /\ trackHistory = <<Uuid(2)>>
    /\ handledDeltas = <<>>
    \* the relay has accepted one browser connection
    /\ pxPhase = "accepted"
    /\ pxClose = ""
    /\ azure_url = NoUrl
    /\ pxRequest = NoRequest
    /\ clientFrames = <<>>
    /\ azureFrames = <<>>
    /\ c2aPos = 0
    /\ a2cPos = 0
    /\ toAzure = <<>>
    /\ toClient = <<>>
    /\ c2aAlive = FALSE
    /\ a2cAlive = FALSE
    /\ clientOpen = TRUE
    /\ azureOpen = FALSE
    \* the dashboard has connected and shows the microphone button
    /\ stop_event = FALSE
    /\ streaming_active = FALSE
    /\ recvThread = "none"
    /\ recvExit = ""
    /\ audio_player = [playing |-> FALSE, queue |-> <<>>, terminated |-> FALSE]
    /\ connQueue = <<>>
    /\ ndash = 0
    /\ current_response_id = NoneVal
    /\ last_audio_item_id = NoneVal
    /\ messages = <<>>
    /\ current_assistant_response = Missing
    /\ assistant_responding = FALSE
    /\ user_speaking = FALSE
    /\ dashSent = <<>>
    /\ dashConnected = TRUE
    /\ dashLog = <<>>
    /\ sendThread = "none"
    /\ lingering = [send |-> 0, receive |-> 0]
    \* chainlit_voice_app.py has been imported, no chat session yet
    /\ connection_state = [connected |-> FALSE, session_ready |-> FALSE,
                           streaming |-> FALSE, user_speaking |-> FALSE,
                           assistant_responding |-> FALSE, connection |-> 0]
    /\ voice_stop_event = FALSE
    /\ conns = <<>>
    /\ sessions = {}
    /\ nvoice = 0
    /\ ws_message_queue = <<>>
    /\ voice_audio_player = [is_playing |-> FALSE, audio_queue |-> <<>>]
    /\ voice_response = [s \in Sessions |-> Missing]
    /\ voiceLog = <<>>
    /\ nvmsg = 0
    /\ message_processor = [s \in Sessions |-> "none"]
    /\ audio_thread = [state |-> "none", pc |-> "idle", conn |-> 0]
    /\ voice_appends = <<>>
    /\ voice_stopped = FALSE
    \* no method of the client has been called directly
    /\ callLog = <<>>
    \* VoiceLiveProxyAioHttp.__init__: no token yet
    /\ self_token = NoneVal
    /\ token_expires = <<>>
    /\ clock = 0
    /\ ncred = 0
    /\ tokenLog = <<>>

Handlers ==
    \/ handle_conversation_updated
    \/ handle_conversation_interrupt
    \/ handle_conversation_interrupt_placeholder
    \/ handle_conversation_message_interrupted
    \/ handle_conversation_thread_updated
    \/ handle_response_audio_transcript_placeholder
    \/ handle_user_input_transcript_done
    \/ handle_user_input_transcript_reset
    \/ Wake

\* The chat app as a whole.
Next ==
    \/ OnAudioStart
    \/ OnEnd
    \/ OnMessage
    \/ ServerClose
    \/ ReceiveEnds
    \/ \E m \in ChatMsgs : Receive(m, MaxMsgs)
    \/ Handlers

Spec == Init /\ [][Next]_vars

\* ---- the chat app when the service streams the assistant's transcript
TextMsgs ==
    {TextDelta("A", "x"), TextDelta("A", "y"), TextDelta("A", ""),
     TextDelta("B", "x"), TextDelta("B", "y"), TextDelta("B", "")}

TranscriptNext ==
    \/ OnAudioStart
    \/ OnEnd
    \/ \E m \in TextMsgs : Receive(m, MaxMsgs)
    \/ handle_conversation_thread_updated
    \/ handle_response_audio_transcript_placeholder
    \/ Wake

SpecTranscript == Init /\ [][TranscriptNext]_vars

\* ---- the chat app when the service streams audio and the user interrupts
AudioMsgs == {AudioDelta("AQA="), AudioDone, SpeechStarted}

TrackNext ==
    \/ OnAudioStart
    \/ OnMessage
    \/ \E m \in AudioMsgs : Receive(m, MaxMsgs)
    \/ handle_conversation_updated
    \/ handle_conversation_interrupt
    \/ handle_conversation_interrupt_placeholder
    \/ handle_conversation_message_interrupted
    \/ Wake

SpecTrack == Init /\ [][TrackNext]_vars

\* ---- the chat app over the turns of a voice conversation: the user starts to
\* speak, the service transcribes the input and streams the assistant's transcript
TurnMsgs == {SpeechStarted, TextDelta("A", "x"), InputDone("hi")}

TurnNext ==
    \/ OnAudioStart
    \/ \E m \in TurnMsgs : Receive(m, MaxMsgs)
    \/ handle_conversation_interrupt
    \/ handle_conversation_interrupt_placeholder
    \/ handle_conversation_thread_updated
    \/ handle_response_audio_transcript_placeholder
    \/ handle_user_input_transcript_done
    \/ handle_user_input_transcript_reset
    \/ Wake

SpecTurns == Init /\ [][TurnNext]_vars

\* ======================================================================
\* Properties of the chat apps
\* ======================================================================

\* The text.delta events receive() dispatched, in arrival order
RECURSIVE ArrivedDeltas(_)
ArrivedDeltas(log) ==
    IF log = <<>> THEN <<>>
    ELSE LET m == log[Len(log)]
             rest == ArrivedDeltas(SubSeq(log, 1, Len(log) - 1))
         IN  IF m.raw = "json" /\ m.type = "response.audio_transcript.delta"
                /\ m.delta # Missing /\ m.item_id # Missing
             THEN Append(rest, [item_id |-> m.item_id, transcript |-> m.delta])
             ELSE rest

IsPrefix(s, t) == Len(s) <= Len(t) /\ s = SubSeq(t, 1, Len(s))

CarriesText(e) == Truthy(e.transcript)

\* Content of the last message sent or updated with this id (None: no such message)
RECURSIVE LastContent(_, _)
LastContent(ops, id) ==
    IF ops = <<>> THEN NoneVal
    ELSE IF ops[Len(ops)].id = id THEN ops[Len(ops)].content
    ELSE LastContent(SubSeq(ops, 1, Len(ops) - 1), id)

\* All deltas of one item, concatenated in arrival order
RECURSIVE ItemText(_, _)
ItemText(es, id) ==
    IF es = <<>> THEN ""
    ELSE ItemText(SubSeq(es, 1, Len(es) - 1), id) \o
         (IF es[Len(es)].item_id = id THEN es[Len(es)].transcript ELSE "")

\* The deltas of the maximal trailing run of events with this item id, concatenated
RECURSIVE TrailingRunText(_, _)
TrailingRunText(es, id) ==
    IF es = <<>> \/ es[Len(es)].item_id # id THEN ""
    ELSE TrailingRunText(SubSeq(es, 1, Len(es) - 1), id) \o es[Len(es)].transcript

SendCount(id) == Cardinality({k \in 1..Len(chat) : chat[k].op = "send" /\ chat[k].id = id})

ItemIds == {"A", "B"}

\* C1 (as claimed): whatever the interleaving of the deltas of two items, the message
\* of each item holds all the deltas of that item handled so far, in arrival order,
\* and the message of an item is sent once only (a later delta never restarts the
\* text nor sends the message again).
C1_InterleavedDeltasAppend ==
    LET es == SelectSeq(handledDeltas, CarriesText)
    IN  \A id \in ItemIds :
          ItemText(es, id) # "" =>
             /\ LastContent(chat, id) = ItemText(es, id)
             /\ SendCount(id) = 1

\* C2: the handlers take the text.delta events in arrival order; the session's
\* transcript pair is [i, t] with i the item id of the last event that carried text
\* and t the concatenated deltas of the maximal trailing run of such events with
\* item id i (the initial pair when no event carried text: events without text
\* change nothing); the last message sent or updated for i has content t.
C2_TranscriptPair ==
    LET es == SelectSeq(handledDeltas, CarriesText)
    IN  /\ IsPrefix(handledDeltas, ArrivedDeltas(msgLog))
        /\ es = <<>> => transcript = <<"1", "-">>
        /\ es # <<>> =>
             LET i == es[Len(es)].item_id
                 t == TrailingRunText(es, i)
             IN  /\ transcript = <<i, t>>
                 /\ LastContent(chat, i) = t

\* C2 witness: B, then A twice and an event without text: the pair is the run of A
C2_Witness ==
    /\ Len(handledDeltas) = 3
    /\ handledDeltas[1].item_id = "B" /\ handledDeltas[1].transcript # ""
    /\ handledDeltas[2] = [item_id |-> "A", transcript |-> "x"]
    /\ handledDeltas[3] = [item_id |-> "A", transcript |-> "y"]
    /\ transcript = <<"A", "xy">>

\* C3: every interruption handled puts a fresh track id in the session (different
\* from every earlier one), the session's track id is the newest one, and every
\* audio chunk sent to the UI carries the track id that was current when it was
\* sent, hence never one that an earlier interruption replaced.
C3_ChunksOnCurrentTrack ==
    /\ track_id = trackHistory[Len(trackHistory)]
    /\ \A i, j \in 1..Len(trackHistory) : i # j => trackHistory[i] # trackHistory[j]
    /\ Len(trackHistory) = 1 +
          Cardinality({k \in 1..Len(started) :
                          started[k].name \in {"conversation.interrupted",
                                               "conversation.message.interrupted"}})
    /\ \A k \in 1..Len(audioOut) :
          audioOut[k].kind = "chunk" =>
             /\ audioOut[k].track = trackHistory[audioOut[k].epoch]
             /\ \A j \in 1..(audioOut[k].epoch - 1) : audioOut[k].track # trackHistory[j]

\* C3 witness: a chunk on the first track, an interruption, a chunk on the new track
C3_Witness ==
    \E k1, k2, k3 \in 1..Len(audioOut) :
        /\ k1 < k2 /\ k2 < k3
        /\ audioOut[k1].kind = "chunk" /\ audioOut[k1].epoch = 1
        /\ audioOut[k2].kind = "interrupt"
        /\ audioOut[k3].kind = "chunk" /\ audioOut[k3].epoch = 2

\* Chat operation k updates a user message: only handle_user_input_transcript_done
\* does that in the three apps
UpdatesUserMessage(k) == chat[k].op = "update" /\ chat[k].author = "user"

\* A message with the id of operation k was sent to the chat before operation k
SentEarlier(k) == \E j \in 1..(k - 1) : chat[j].op = "send" /\ chat[j].id = chat[k].id

\* Chat operation k sends a user message with empty content: a placeholder
IsPlaceholder(k) ==
    chat[k].op = "send" /\ chat[k].author = "user" /\ chat[k].content = ""

\* Chat operation k sends a new assistant message for an item of the service
IsAssistantMessage(k) ==
    chat[k].op = "send" /\ chat[k].author = "assistant" /\ chat[k].id \in ItemIds

\* The session so far is one turn that began with speech_started
OneTurnFromSpeechStarted ==
    /\ msgLog # <<>>
    /\ msgLog[1] = SpeechStarted
    /\ \A k \in 2..Len(msgLog) : msgLog[k] # SpeechStarted
    /\ \A j, k \in 1..Len(msgLog) : (msgLog[j] = InputDone("hi") /\ msgLog[k] = InputDone("hi")) => j = k

\* C20 (as claimed): in model_app, for a turn that starts with speech_started, the
\* user placeholder of the turn is sent before the first assistant message of
\* the turn, and the transcription-completed event of the turn updates that
\* placeholder, however the handler tasks interleave.
C20_PlaceholderBeforeAssistantMessage ==
    (variant = "model_app" /\ OneTurnFromSpeechStarted) =>
        /\ \A k \in 1..Len(chat) :
              IsAssistantMessage(k) => \E j \in 1..(k - 1) : IsPlaceholder(j)
        /\ \A k \in 1..Len(chat) :
              UpdatesUserMessage(k) =>
                 \E j \in 1..(k - 1) : IsPlaceholder(j) /\ chat[j].id = chat[k].id

\* C19 (as claimed): whenever handle_user_input_transcript_done updates a user
\* message by id, a placeholder message with that id was sent to the chat earlier,
\* for any order of speech-started, assistant-delta and transcription-completed
\* events.
C19_UpdatedPlaceholderWasSent ==
    \A k \in 1..Len(chat) : UpdatesUserMessage(k) => SentEarlier(k)

\* ======================================================================
\* The realtime client under function calls, bad traffic and mixed traffic
\* ======================================================================

Done(status, output) ==
    Msg("json", "response.done", Missing, Missing, Missing, status, output)

FunctionCall(name, arguments, call_id) == Item("function_call", name, arguments, call_id)

\* response.done messages: two calls that can succeed, a name that is not in
\* available_functions, arguments that are not JSON, arguments with the wrong
\* keyword, a response that did not complete, an empty output list, and a
\* function call that is not the first output item.
ToolMsgs ==
    {Done("completed", <<FunctionCall("perform_search_based_qna", "{query}", "call-1")>>),
     Done("completed", <<FunctionCall("order_products", "{product_id,quantity}", "call-2")>>),
     Done("completed", <<FunctionCall("get_weather", "{foo}", "call-3")>>),
     Done("completed", <<FunctionCall("create_delivery_order", "{order_id", "call-4")>>),
     Done("completed", <<FunctionCall("perform_call_log_analysis", "{foo}", "call-5")>>),
     Done("failed", <<FunctionCall("perform_search_based_qna", "{query}", "call-6")>>),
     Done("completed", <<>>),
     Done("completed", <<Item("message", NoneVal, NoneVal, NoneVal),
                         FunctionCall("perform_search_based_qna", "{query}", "call-7")>>)}

ToolNext ==
    \/ OnAudioStart
    \/ OnEnd
    \/ \E m \in ToolMsgs : Receive(m, MaxMsgs)

\* model_app.py is the app that uses VoiceLiveModelClient
InitModelApp == Init /\ variant = "model_app"

SpecTools == InitModelApp /\ [][ToolNext]_vars

\* ---- the client's methods called directly, next to the receive loop
CallEntry(op, name, data, content, eff, raised) ==
    [op |-> op, name |-> name, data |-> data, content |-> content,
     connected |-> is_connected, open |-> CanSend,
     from |-> Len(sent), to |-> Len(sent) + Len(eff.sends),
     dispFrom |-> Len(dispatched), dispTo |-> Len(dispatched) + Len(eff.disp),
     raised |-> raised, closed |-> eff.closed]

\* What a direct call does to the client: the envelopes it writes, the tasks it
\* creates, the socket closing under it, and its entry in the call log
Called(eff, entry, limit) ==
    /\ Len(callLog) < limit
    /\ sent' = sent \o eff.sends
    /\ sockOpen' = (sockOpen /\ ~eff.closed)
    /\ ready' = dispatchAll(ready, eff.disp, 0)
    /\ dispatched' = dispatched \o
           [i \in 1..Len(eff.disp) |-> [idx |-> 0, name |-> eff.disp[i].name]]
    /\ callLog' = Append(callLog, entry)
    /\ UNCHANGED tokenVars
    /\ UNCHANGED <<variant, ws, recvAlive, nrecv, nuser, nconn, msgLog, fnCalls, doneLog,
                   waiting, started, sessionVars>>
    /\ UNCHANGED <<proxyVars, dashVars, voiceVars>>

\* await client.send(event_name, data)
CallSend(event_name, data) ==
    LET r == send(event_name, data)
        eff == Effect(r.raised = "", <<>>, r.written, <<>>, FALSE)
    IN  Called(eff, CallEntry("send", event_name, data, <<>>, eff, r.raised), MaxSendCalls)

\* await client.send_user_message_content(content)
CallSendUserMessageContent(content) ==
    \E drop \in BOOLEAN :
       LET eff == send_user_message_content(content, drop)
       IN  Called(eff, CallEntry("send_user_message_content", "", NoData, content, eff,
                                 IF eff.alive THEN "" ELSE "raised"), MaxCalls)

\* await client.append_input_audio(array_buffer)
CallAppendInputAudio(array_buffer) ==
    LET eff == append_input_audio(array_buffer)
    IN  Called(eff, CallEntry("append_input_audio", "", NoData, array_buffer, eff,
                              IF eff.alive THEN "" ELSE "raised"), MaxCalls)

\* Event names and data values for direct calls of send
SendNames == {"input_audio_buffer.clear", "session.update"}
SendData == {NoData, EmptyDict, DictOf("message"), DictWithType("other"), EmptyList, ListOf}

\* Python lists given as content and as audio buffer
Lists == {<<>>, <<"x">>}

ClientMsgs ==
    {Committed, SpeechStarted,
     Done("completed", <<FunctionCall("perform_search_based_qna", "{query}", "call-1")>>)}

ClientNext ==
    \/ OnAudioStart
    \/ OnEnd
    \/ ServerClose
    \/ \E m \in ClientMsgs : Receive(m, MaxClientMsgs)
    \/ \E content \in Lists : CallSendUserMessageContent(content)
    \/ \E array_buffer \in Lists : CallAppendInputAudio(array_buffer)

SpecClient == Init /\ [][ClientNext]_vars

\* ---- send() called with every kind of data, on every state of the connection
SendNext ==
    \/ OnAudioStart
    \/ OnEnd
    \/ ServerClose
    \/ \E event_name \in SendNames, data \in SendData : CallSend(event_name, data)

SpecSend == Init /\ [][SendNext]_vars

\* Frames the receive loop cannot handle, next to frames it can
Garbage == Msg("oops", Missing, Missing, Missing, Missing, Missing, <<>>)
NoType == Msg("json", Missing, Missing, Missing, Missing, Missing, <<>>)

ErrorMsgs ==
    {Garbage, NoType, AudioDelta(Missing), TextDelta(Missing, "x"), TextDelta("A", Missing),
     InputDone(Missing), Committed, TextDelta("A", "x"),
     Done("completed", <<FunctionCall("perform_search_based_qna", "{query}", "call-1")>>)}

ErrorNext ==
    \/ OnAudioStart
    \/ OnEnd
    \/ ServerClose
    \/ ReceiveEnds
    \/ \E m \in ErrorMsgs : Receive(m, MaxMsgs)

SpecErrors == Init /\ [][ErrorNext]_vars

\* One message of every type the receive loop knows, with the handlers running
DispatchMsgs ==
    {AudioDelta("AQA="), AudioDone, SpeechStarted, SpeechStopped, Committed,
     TextDelta("A", "x"), InputDone("hi")}

DispatchNext ==
    \/ OnAudioStart
    \/ OnMessage
    \/ \E m \in DispatchMsgs : Receive(m, MaxDispatchMsgs)
    \/ handle_conversation_updated
    \/ handle_conversation_interrupt
    \/ handle_conversation_interrupt_placeholder
    \/ handle_conversation_message_interrupted
    \/ handle_conversation_thread_updated
    \/ handle_response_audio_transcript_placeholder
    \/ handle_user_input_transcript_done
    \/ handle_user_input_transcript_reset
    \/ Wake

SpecDispatch == Init /\ [][DispatchNext]_vars

\* ======================================================================
\* Properties of the realtime client
\* ======================================================================

\* C5 (as claimed): an error while one message is handled (a frame that is not
\* JSON, a missing 'type', 'delta', 'item_id' or 'transcript', a send that fails)
\* is caught and the receive loop goes on: as long as the socket is open the
\* receive task is alive.
C5_ReceiveLoopSurvives == sockOpen => recvAlive

\* The callback name the receive loop uses for a message type (None: no callback)
CallbackOf(type) ==
    CASE type \in {"response.audio.delta", "response.audio.done"} -> "conversation.updated"
      [] type = "input_audio_buffer.speech_started" -> "conversation.interrupted"
      [] type = "response.audio_transcript.delta" -> "conversation.text.delta"
      [] type = "conversation.item.input_audio_transcription.completed" ->
             "conversation.input.text.done"
      [] OTHER -> NoneVal

CallbackNames ==
    {"conversation.updated", "conversation.interrupted", "conversation.text.delta",
     "conversation.input.text.done", "conversation.message.interrupted"}

\* C8: a server message leads to at most one dispatch, whose callback name is fixed
\* by the message type; dispatches happen in arrival order; and the handler tasks
\* of one callback name start in the order of their dispatches, hence in the
\* arrival order of their messages.
C8_DispatchInArrivalOrder ==
    /\ \A k \in 1..Len(dispatched) :
          dispatched[k].idx > 0 =>
             /\ msgLog[dispatched[k].idx].raw = "json"
             /\ dispatched[k].name = CallbackOf(msgLog[dispatched[k].idx].type)
             /\ \A j \in 1..Len(dispatched) :
                   j < k /\ dispatched[j].idx > 0 => dispatched[j].idx < dispatched[k].idx
    /\ \A name \in CallbackNames :
          LET ByName(e) == e.name = name
          IN  IsPrefix(SelectSeq(started, ByName), SelectSeq(dispatched, ByName))

\* C8 witness: audio.delta then audio.done arrived, both handlers started, in order
C8_Witness ==
    /\ Len(msgLog) >= 2
    /\ msgLog[1].type = "response.audio.delta"
    /\ msgLog[2].type = "response.audio.done"
    /\ Len(started) >= 2
    /\ started[1] = [idx |-> 1, name |-> "conversation.updated"]
    /\ started[2] = [idx |-> 2, name |-> "conversation.updated"]

\* A completed response.done whose first output item is a function call
IsFunctionCallDone(m) ==
    /\ m.raw = "json"
    /\ m.type = "response.done"
    /\ Get(m.status) = "completed"
    /\ Len(m.output) > 0
    /\ Get(m.output[1].type) = "function_call"

IsOutputFor(e, call_id) ==
    e.type = "conversation.item.create" /\ e.item = "function_call_output"
    /\ e.call_id = call_id

IsResponseCreate(e) == e.type = "response.create"

\* What the handling of the k-th response.done wrote to the socket
SentFor(k) == SubSeq(sent, doneLog[k].from + 1, doneLog[k].to)

\* C9 (as claimed): every completed response.done with a function call is
\* answered, while the connection is open, with the function_call_output for its
\* call_id followed by response.create, whatever the function name, the arguments
\* and the outcome of the function.
C9_EveryFunctionCallAnswered ==
    variant = "model_app" =>
       \A k \in 1..Len(doneLog) :
          LET m == msgLog[doneLog[k].idx]
          IN  (IsFunctionCallDone(m) /\ doneLog[k].open) =>
                 /\ Len(SentFor(k)) = 2
                 /\ IsOutputFor(SentFor(k)[1], m.output[1].call_id)
                 /\ IsResponseCreate(SentFor(k)[2])

\* C10 (as claimed): when the function call succeeded, exactly one
\* function_call_output with the call's call_id and then exactly one
\* response.create were sent.
C10_ExactlyOneOutputThenCreate ==
    variant = "model_app" =>
       \A k \in 1..Len(doneLog) :
          LET m == msgLog[doneLog[k].idx]
          IN  (IsFunctionCallDone(m) /\ doneLog[k].result = "returned") =>
                 /\ Len(SentFor(k)) = 2
                 /\ IsOutputFor(SentFor(k)[1], m.output[1].call_id)
                 /\ IsResponseCreate(SentFor(k)[2])

\* C10 (amended): when the function call succeeded, the client sent at most one
\* function_call_output, with the call's call_id, then at most one response.create,
\* in that order and after the function returned; it sent both when the connection
\* stayed open through the two sends.
C10_OutputThenCreateWhileOpen ==
    variant = "model_app" =>
       \A k \in 1..Len(doneLog) :
          LET m == msgLog[doneLog[k].idx]
          IN  (IsFunctionCallDone(m) /\ doneLog[k].result = "returned") =>
                 /\ Len(SentFor(k)) <= 2
                 /\ Len(SentFor(k)) >= 1 => IsOutputFor(SentFor(k)[1], m.output[1].call_id)
                 /\ Len(SentFor(k)) = 2 => IsResponseCreate(SentFor(k)[2])
                 /\ doneLog[k].open => Len(SentFor(k)) = 2
                 /\ \E j \in 1..Len(fnCalls) :
                       /\ fnCalls[j].call_id = m.output[1].call_id
                       /\ fnCalls[j].result = "returned"
                       /\ fnCalls[j].at = doneLog[k].from

\* C10 witness: two successful calls, each answered by its output and response.create
C10_Witness ==
    /\ variant = "model_app"
    /\ Len(doneLog) = 2
    /\ doneLog[1].result = "returned" /\ doneLog[2].result = "returned"
    /\ msgLog[doneLog[1].idx].output[1].call_id = "call-1"
    /\ msgLog[doneLog[2].idx].output[1].call_id = "call-2"
    /\ Len(SentFor(1)) = 2 /\ Len(SentFor(2)) = 2
    /\ SentFor(2)[1].call_id = "call-2"

\* The names declared in tools_list
ToolNames == {tools_list[i] : i \in 1..Len(tools_list)}

\* C12: the names declared to the model in tools_list are exactly the keys of
\* available_functions, each declared once and each with a callable behind it;
\* both tables are module-level literals that no operation assigns to, so this
\* holds in every state, and every function the client has invoked is one of them.
C12_ToolTableStatic ==
    /\ ToolNames = available_functions
    /\ Cardinality(ToolNames) = Len(tools_list)
    /\ \A n \in ToolNames : Params(n) # NoneVal
    /\ \A j \in 1..Len(fnCalls) : fnCalls[j].name \in ToolNames

\* C12 witness: the session was configured and two declared functions were invoked
C12_Witness ==
    /\ Len(sent) > 0 /\ sent[1].type = "session.update"
    /\ \E i, j \in 1..Len(fnCalls) :
          /\ fnCalls[i].name = "perform_search_based_qna"
          /\ fnCalls[j].name = "order_products"

\* An output item that asks for a function the client can call
IsCallableItem(item) ==
    /\ Get(item.type) = "function_call"
    /\ item.name \in available_functions
    /\ item.arguments \in JsonObjects

\* C11 (as claimed): for every completed response.done the client handled, every
\* output item of type function_call, at whatever position of the output list, had
\* its function invoked (a call with the item's name and call_id was made).
C11_EveryFunctionCallItemInvoked ==
    variant = "model_app" =>
       \A k \in 1..Len(doneLog) :
          LET m == msgLog[doneLog[k].idx]
          IN  Get(m.status) = "completed" =>
                 \A p \in 1..Len(m.output) :
                    IsCallableItem(m.output[p]) =>
                       \E j \in 1..Len(fnCalls) :
                          /\ fnCalls[j].name = m.output[p].name
                          /\ fnCalls[j].call_id = m.output[p].call_id

\* What the k-th direct call wrote to the socket, and the dispatches it made
WrittenBy(k) == SubSeq(sent, callLog[k].from + 1, callLog[k].to)
DispatchedBy(k) == SubSeq(dispatched, callLog[k].dispFrom + 1, callLog[k].dispTo)

\* C13: send_user_message_content with empty content sends nothing and dispatches
\* nothing; with non-empty content it sends conversation.item.create first and
\* response.create second and dispatches conversation.message.interrupted only
\* when both were sent; when the first send fails (not connected, socket closed)
\* nothing is sent and nothing dispatched; when the socket closes after the first
\* send only conversation.item.create was sent and nothing is dispatched.
C13_ItemThenCreateThenDispatch ==
    \A k \in 1..Len(callLog) :
       LET c == callLog[k]
           w == WrittenBy(k)
           d == DispatchedBy(k)
       IN  c.op = "send_user_message_content" =>
              /\ c.content = <<>> => (w = <<>> /\ d = <<>> /\ c.raised = "")
              /\ c.content # <<>> =>
                    /\ Len(w) <= 2
                    /\ Len(w) >= 1 => (w[1].type = "conversation.item.create"
                                        /\ w[1].item = "message")
                    /\ Len(w) = 2 => w[2].type = "response.create"
                    /\ d # <<>> =>
                          /\ Len(w) = 2
                          /\ d = <<[idx |-> 0, name |-> "conversation.message.interrupted"]>>
                    /\ ~c.open => (w = <<>> /\ d = <<>> /\ c.raised # "")
                    /\ (c.open /\ ~c.closed) => (Len(w) = 2 /\ Len(d) = 1 /\ c.raised = "")
                    /\ (c.open /\ c.closed) => (Len(w) = 1 /\ d = <<>> /\ c.raised # "")

\* C13 witness: a call with content whose first send failed, then, connected, a
\* call with content that sent both messages and dispatched
C13_Witness ==
    /\ Len(callLog) = 2
    /\ callLog[1].op = "send_user_message_content" /\ callLog[1].content # <<>>
    /\ ~callLog[1].open /\ callLog[1].raised # ""
    /\ callLog[2].op = "send_user_message_content" /\ callLog[2].content # <<>>
    /\ Len(WrittenBy(2)) = 2 /\ Len(DispatchedBy(2)) = 1

CountResponseCreate(es) == Len(SelectSeq(es, IsResponseCreate))

IsCommitted(k) == msgLog[doneLog[k].idx].type = "input_audio_buffer.committed"

\* Every response.create on the socket was written while a committed event or a
\* send_user_message_content call with content was handled
ResponseCreateOnlyOnTrigger ==
    \A i \in 1..Len(sent) :
       IsResponseCreate(sent[i]) =>
          \/ \E k \in 1..Len(doneLog) :
                IsCommitted(k) /\ doneLog[k].from < i /\ i <= doneLog[k].to
          \/ \E k \in 1..Len(callLog) :
                /\ callLog[k].op = "send_user_message_content"
                /\ callLog[k].content # <<>>
                /\ callLog[k].from < i /\ i <= callLog[k].to

\* C14 (as claimed): with VoiceLiveClient, append_input_audio writes exactly one
\* input_audio_buffer.append for a non-empty buffer and nothing for an empty one;
\* exactly one response.create is written for each committed event received and
\* for each send_user_message_content call with content, and no other one.
C14_ResponseCreateExactlyOncePerTrigger ==
    variant # "model_app" =>
       /\ \A k \in 1..Len(callLog) :
             /\ callLog[k].op = "append_input_audio" =>
                   IF callLog[k].content = <<>> THEN WrittenBy(k) = <<>>
                   ELSE /\ Len(WrittenBy(k)) = 1
                        /\ WrittenBy(k)[1].type = "input_audio_buffer.append"
             /\ callLog[k].op = "send_user_message_content" =>
                   CountResponseCreate(WrittenBy(k)) =
                      (IF callLog[k].content = <<>> THEN 0 ELSE 1)
       /\ \A k \in 1..Len(doneLog) :
             IsCommitted(k) => CountResponseCreate(SentFor(k)) = 1
       /\ ResponseCreateOnlyOnTrigger

\* C14 (amended): with VoiceLiveClient, append_input_audio writes nothing for an
\* empty buffer and, for a non-empty one, one input_audio_buffer.append when the
\* client is connected and the socket open and nothing otherwise, never a
\* response.create; a committed event and a send_user_message_content call with
\* content each lead to one response.create when their sends succeed and to none
\* when a send raises; no response.create is written for anything else.
C14_ResponseCreateOnlyOnTrigger ==
    variant # "model_app" =>
       /\ \A k \in 1..Len(callLog) :
             /\ callLog[k].op = "append_input_audio" =>
                   /\ CountResponseCreate(WrittenBy(k)) = 0
                   /\ IF callLog[k].content # <<>> /\ callLog[k].open
                      THEN /\ Len(WrittenBy(k)) = 1
                           /\ WrittenBy(k)[1].type = "input_audio_buffer.append"
                      ELSE WrittenBy(k) = <<>>
             /\ callLog[k].op = "send_user_message_content" =>
                   CountResponseCreate(WrittenBy(k)) =
                      (IF callLog[k].content # <<>> /\ callLog[k].open
                          /\ ~callLog[k].closed THEN 1 ELSE 0)
       /\ \A k \in 1..Len(doneLog) :
             /\ IsCommitted(k) =>
                   SentFor(k) = (IF doneLog[k].open
                                 THEN <<Envelope("response.create", "", NoneVal)>>
                                 ELSE <<>>)
             /\ ~IsCommitted(k) => SentFor(k) = <<>>
       /\ ResponseCreateOnlyOnTrigger

\* C14 witness: audio was appended, a committed event was answered by one
\* response.create, a typed message by another, speech_started by none
C14_Witness ==
    /\ variant = "app"
    /\ Len(callLog) = 2 /\ Len(doneLog) = 1 /\ Len(msgLog) = 2
    /\ \E k \in 1..2 : callLog[k].op = "append_input_audio" /\ Len(WrittenBy(k)) = 1
    /\ \E k \in 1..2 : callLog[k].op = "send_user_message_content"
                        /\ CountResponseCreate(WrittenBy(k)) = 1
    /\ IsCommitted(1) /\ Len(SentFor(1)) = 1
    /\ \E i \in 1..2 : msgLog[i].type = "input_audio_buffer.speech_started"
    /\ CountResponseCreate(sent) = 2

\* C15 (as claimed): send on a client whose ws is None raises 'Voice Live API is
\* not connected' and writes nothing; with data that is not a dictionary (and not
\* the default None) it raises and writes nothing; otherwise it writes exactly one
\* envelope whose type is event_name and which has an event_id.
C15_SendRaisesOrWritesOne ==
    \A k \in 1..Len(callLog) :
       LET c == callLog[k]
           w == WrittenBy(k)
       IN  c.op = "send" =>
              IF ~c.connected
              THEN c.raised = "Voice Live API is not connected" /\ w = <<>>
              ELSE IF c.data.kind \notin {"dict", "NoneType"}
              THEN c.raised # "" /\ w = <<>>
              ELSE /\ c.raised = ""
                   /\ Len(w) = 1
                   /\ w[1].type = c.name
                   /\ w[1].event_id = _generate_id("evt_")

\* ======================================================================
\* WebSocket relay: voice_live_proxy_aiohttp.py
\* ======================================================================

\* A WebSocket frame as aiohttp hands it over: msg.type and msg.data
Frame(type, data) == [type |-> type, data |-> data]

\* What a peer can put on its socket: text and binary frames, a close frame, and a
\* failure of the connection (aiohttp reports it as a message of type ERROR).
Frames ==
    {Frame("TEXT", "a"), Frame("TEXT", "b"), Frame("BINARY", "a"), Frame("CLOSE", ""),
     Frame("ERROR", "")}

\* A frame the relay itself writes to the browser
Notice(type) == [type |-> "TEXT", data |-> type, origin |-> "proxy"]

\* A frame written to the browser by forward_azure_to_client
Relayed(data) == [type |-> "TEXT", data |-> data, origin |-> "azure"]

\* Faulty variant, for comparison: only a request without both parameters is refused
MissingParameters_both(project_name, agent_id) ==
    ~Truthy(project_name) /\ ~Truthy(agent_id)

\* if not project_name or not agent_id
MissingParameters(project_name, agent_id) ==
    ~Truthy(project_name) \/ ~Truthy(agent_id)

\* query_params.get(key, [None])[0], then os.environ.get(...) when that is falsy
Parameter(query, env) == IF Truthy(query) THEN query ELSE env

\* handle_client_connection up to asyncio.gather: the query parameters with their
\* environment defaults, the token (asked for only once the parameters are there),
\* the upstream connection. A send_str to a browser that is gone raises; the
\* handlers of that exception send nothing more.
handle_client_connection ==
    /\ pxPhase = "accepted"
    /\ \E q_project \in {NoneVal, "proj"}, env_project \in {NoneVal, "env-proj"},
          q_agent \in {NoneVal, "agent"}, env_agent \in {NoneVal, "env-agent"},
          token \in {NoneVal, "tok"}, upstream \in BOOLEAN :
         LET project_name == Parameter(q_project, env_project)
             agent_id == Parameter(q_agent, env_agent)
             request == [q_project |-> q_project, env_project |-> env_project,
                         q_agent |-> q_agent, env_agent |-> env_agent,
                         token |-> token, clientOpen |-> clientOpen]
             url == [project_name |-> project_name, agent_id |-> agent_id,
                     token |-> token]
         IN  IF MissingParameters(project_name, agent_id)
             THEN /\ pxRequest' = [request EXCEPT !.token = Missing]
                  /\ pxPhase' = "closed"
                  /\ pxClose' = "1008"
                  /\ UNCHANGED <<azure_url, toClient, c2aAlive, a2cAlive, azureOpen>>
             ELSE /\ pxRequest' = request
                  /\ IF ~Truthy(token)
                     THEN /\ pxPhase' = "closed"
                          /\ IF clientOpen
                             THEN /\ toClient' = Append(toClient,
                                                        Notice("connection.error"))
                                  /\ pxClose' = "1008"
                             ELSE UNCHANGED <<toClient, pxClose>>
                          /\ UNCHANGED <<azure_url, c2aAlive, a2cAlive, azureOpen>>
                     ELSE /\ azure_url' = url
                          /\ IF ~clientOpen
                             THEN /\ pxPhase' = "closed"
                                  /\ UNCHANGED <<pxClose, toClient, c2aAlive, a2cAlive,
                                                 azureOpen>>
                             ELSE IF ~upstream                  \* aiohttp.ClientError
                             THEN /\ toClient' = Append(toClient,
                                                        Notice("connection.error"))
                                  /\ pxPhase' = "closed"
                                  /\ pxClose' = "1011"
                                  /\ UNCHANGED <<c2aAlive, a2cAlive, azureOpen>>
                             ELSE /\ toClient' = Append(toClient,
                                                        Notice("connection.established"))
                                  /\ pxPhase' = "forwarding"
                                  /\ c2aAlive' = TRUE
                                  /\ a2cAlive' = TRUE
                                  /\ azureOpen' = TRUE
                                  /\ UNCHANGED pxClose
    /\ UNCHANGED <<clientFrames, azureFrames, c2aPos, a2cPos, toAzure, clientOpen>>
    /\ UNCHANGED <<appVars, dashVars, voiceVars, apiVars>>

\* forward_client_to_azure, one turn of `async for msg in ws_client`: a text frame
\* is sent on with send_str, an ERROR message breaks the loop, a close frame ends
\* the iteration, a send_str that raises ends the task, anything else is skipped.
forward_client_to_azure ==
    /\ pxPhase = "forwarding"
    /\ c2aAlive
    /\ c2aPos < Len(clientFrames)
    /\ c2aPos' = c2aPos + 1
    /\ LET msg == clientFrames[c2aPos + 1]
       IN  CASE msg.type = "TEXT" ->
                   IF azureOpen
                   THEN toAzure' = Append(toAzure, Frame("TEXT", msg.data))
                        /\ UNCHANGED c2aAlive
                   ELSE c2aAlive' = FALSE /\ UNCHANGED toAzure
             [] msg.type \in {"ERROR", "CLOSE"} -> c2aAlive' = FALSE /\ UNCHANGED toAzure
             [] OTHER -> UNCHANGED <<toAzure, c2aAlive>>
    /\ UNCHANGED <<pxPhase, pxClose, azure_url, pxRequest, clientFrames, azureFrames, a2cPos,
                   toClient, a2cAlive, clientOpen, azureOpen>>
    /\ UNCHANGED <<appVars, dashVars, voiceVars, apiVars>>

\* forward_azure_to_client, one turn of `async for msg in ws_azure`
forward_azure_to_client ==
    /\ pxPhase = "forwarding"
    /\ a2cAlive
    /\ a2cPos < Len(azureFrames)
    /\ a2cPos' = a2cPos + 1
    /\ LET msg == azureFrames[a2cPos + 1]
       IN  CASE msg.type = "TEXT" ->
                   IF clientOpen
                   THEN toClient' = Append(toClient, Relayed(msg.data))
                        /\ UNCHANGED a2cAlive
                   ELSE a2cAlive' = FALSE /\ UNCHANGED toClient
             [] msg.type \in {"ERROR", "CLOSE"} -> a2cAlive' = FALSE /\ UNCHANGED toClient
             [] OTHER -> UNCHANGED <<toClient, a2cAlive>>
    /\ UNCHANGED <<pxPhase, pxClose, azure_url, pxRequest, clientFrames, azureFrames, c2aPos,
                   toAzure, c2aAlive, clientOpen, azureOpen>>
    /\ UNCHANGED <<appVars, dashVars, voiceVars, apiVars>>

\* asyncio.gather returns when both forwarders have ended; leaving the
\* `async with` blocks closes the upstream socket.
ProxyDone ==
    /\ pxPhase = "forwarding"
    /\ ~c2aAlive
    /\ ~a2cAlive
    /\ pxPhase' = "closed"
    /\ azureOpen' = FALSE
    /\ UNCHANGED <<pxClose, azure_url, pxRequest, clientFrames, azureFrames, c2aPos, a2cPos, toAzure,
                   toClient, c2aAlive, a2cAlive, clientOpen>>
    /\ UNCHANGED <<appVars, dashVars, voiceVars, apiVars>>

\* The browser puts a frame on its socket (the relay's socket buffers it).
ClientSends(f) ==
    /\ clientOpen
    /\ Len(clientFrames) < MaxFrames
    /\ clientFrames' = Append(clientFrames, f)
    /\ clientOpen' = (f.type \in {"TEXT", "BINARY"})
    /\ UNCHANGED <<pxPhase, pxClose, azure_url, pxRequest, azureFrames, c2aPos, a2cPos, toAzure,
                   toClient, c2aAlive, a2cAlive, azureOpen>>
    /\ UNCHANGED <<appVars, dashVars, voiceVars, apiVars>>

\* The service puts a frame on the upstream socket.
AzureSends(f) ==
    /\ pxPhase = "forwarding"
    /\ azureOpen
    /\ Len(azureFrames) < MaxFrames
    /\ azureFrames' = Append(azureFrames, f)
    /\ azureOpen' = (f.type \in {"TEXT", "BINARY"})
    /\ UNCHANGED <<pxPhase, pxClose, azure_url, pxRequest, clientFrames, c2aPos, a2cPos, toAzure,
                   toClient, c2aAlive, a2cAlive, clientOpen>>
    /\ UNCHANGED <<appVars, dashVars, voiceVars, apiVars>>

ProxyNext ==
    \/ handle_client_connection
    \/ forward_client_to_azure
    \/ forward_azure_to_client
    \/ ProxyDone
    \/ \E f \in Frames : ClientSends(f)
    \/ \E f \in Frames : AzureSends(f)

SpecProxy == Init /\ [][ProxyNext]_vars

\* ---------------------------------------------------------------- relay properties
CarriesPayload(f) == f.type \in {"TEXT", "BINARY"}

FromAzure(f) == f.origin = "azure"

Strip(fs) == [k \in 1..Len(fs) |-> Frame(fs[k].type, fs[k].data)]

\* C4 (as claimed): while both sockets are open, every text or binary frame the
\* relay has taken from one peer has been written to the other peer, unchanged,
\* once, in order.
C4_EveryFrameForwarded ==
    (pxPhase = "forwarding" /\ clientOpen /\ azureOpen) =>
       /\ toAzure = SelectSeq(SubSeq(clientFrames, 1, c2aPos), CarriesPayload)
       /\ Strip(SelectSeq(toClient, FromAzure)) =
             SelectSeq(SubSeq(azureFrames, 1, a2cPos), CarriesPayload)

\* The handler had both parameters, from the query string or the environment
HadParameters ==
    /\ Truthy(pxRequest.q_project) \/ Truthy(pxRequest.env_project)
    /\ Truthy(pxRequest.q_agent) \/ Truthy(pxRequest.env_agent)

\* C16: once the handler has run, an outbound connection was attempted only if
\* project_name and agent_id were both available (query string first, environment
\* otherwise) and a token was obtained, and then with these values; with a
\* parameter missing the browser connection is closed with 1008, nothing was sent
\* and the token was not asked for; with the parameters but no token, and the
\* browser still connected, exactly one connection.error was sent and the
\* connection closed with 1008; in both cases no outbound connection was attempted.
C16_OutboundOnlyWithParametersAndToken ==
    pxPhase # "accepted" =>
       /\ azure_url # NoUrl =>
             /\ HadParameters
             /\ Truthy(pxRequest.token)
             /\ azure_url = [project_name |-> Parameter(pxRequest.q_project,
                                                         pxRequest.env_project),
                             agent_id |-> Parameter(pxRequest.q_agent,
                                                     pxRequest.env_agent),
                             token |-> pxRequest.token]
       /\ ~HadParameters =>
             /\ pxPhase = "closed" /\ pxClose = "1008"
             /\ toClient = <<>>
             /\ pxRequest.token = Missing
             /\ azure_url = NoUrl /\ ~azureOpen /\ toAzure = <<>>
       /\ (HadParameters /\ ~Truthy(pxRequest.token)) =>
             /\ pxPhase = "closed"
             /\ azure_url = NoUrl /\ ~azureOpen /\ toAzure = <<>>
             /\ IF pxRequest.clientOpen
                THEN toClient = <<Notice("connection.error")>> /\ pxClose = "1008"
                ELSE toClient = <<>> /\ pxClose = ""

\* C16 witness: the agent id came from the environment, no token was obtained:
\* one connection.error, close code 1008, no outbound connection
C16_Witness ==
    /\ pxPhase = "closed"
    /\ pxRequest # NoRequest
    /\ pxRequest.q_project = "proj" /\ pxRequest.q_agent = NoneVal
    /\ pxRequest.env_agent = "env-agent"
    /\ pxRequest.token = NoneVal
    /\ toClient = <<Notice("connection.error")>> /\ pxClose = "1008"
    /\ azure_url = NoUrl

\* ---- the relay's token cache: get_fresh_token

\* Local time is UTC plus this many minutes
UtcOffset == 60

\* datetime.now() and datetime.fromtimestamp(expires_on): naive local times
datetime_now == clock + UtcOffset
fromtimestamp(ts) == ts + UtcOffset

\* timedelta(minutes=5)
RefreshMargin == 5

\* Minutes a token of the credential is still valid when it is handed over
Lifetimes == {4, 7}

\* Faulty variant, for comparison: the cached token is kept until the margin is passed
NeedsToken_late(tok, expires, now) ==
    \/ tok = NoneVal
    \/ expires = <<>>
    \/ now > expires[1] - RefreshMargin

\* `self.token is None or self.token_expires is None or
\*  datetime.now() >= self.token_expires - timedelta(minutes=5)`
NeedsToken(tok, expires, now) ==
    \/ tok = NoneVal
    \/ expires = <<>>
    \/ now >= expires[1] - RefreshMargin

\* get_fresh_token: the cached token, or a new one from the credential; whatever
\* is raised is caught and None is returned
get_fresh_token ==
    /\ Len(tokenLog) < MaxTokenCalls
    /\ \E fails \in BOOLEAN, lifetime \in Lifetimes :
         LET needs == NeedsToken(self_token, token_expires, datetime_now)
             fresh == "token-" \o ToString(ncred + 1)
             expires_on == clock + lifetime
             result == IF ~needs THEN self_token ELSE IF fails THEN NoneVal ELSE fresh
         IN  /\ IF needs /\ ~fails
                THEN /\ self_token' = fresh
                     /\ token_expires' = <<fromtimestamp(expires_on)>>
                ELSE UNCHANGED <<self_token, token_expires>>
             /\ ncred' = IF needs THEN ncred + 1 ELSE ncred
             /\ tokenLog' = Append(tokenLog,
                    [now |-> datetime_now, token |-> self_token, expires |-> token_expires,
                     called |-> needs, failed |-> needs /\ fails, result |-> result,
                     fresh |-> fresh, expires_on |-> expires_on,
                     token_after |-> self_token', expires_after |-> token_expires'])
    /\ UNCHANGED <<clock, callLog>>
    /\ UNCHANGED <<appVars, proxyVars, dashVars, voiceVars>>

\* A minute passes
Tick ==
    /\ clock < MaxClock
    /\ clock' = clock + 1
    /\ UNCHANGED <<self_token, token_expires, ncred, tokenLog, callLog>>
    /\ UNCHANGED <<appVars, proxyVars, dashVars, voiceVars>>

TokenNext ==
    \/ get_fresh_token
    \/ Tick

SpecToken == Init /\ [][TokenNext]_vars

\* Call k of get_fresh_token found a cached token whose recorded expiry was more
\* than 5 minutes ahead
CachedAhead(k) ==
    /\ tokenLog[k].token # NoneVal
    /\ tokenLog[k].expires # <<>>
    /\ tokenLog[k].expires[1] - tokenLog[k].now > RefreshMargin

\* C22: get_fresh_token returns the cached token without calling the credential
\* when the cached token's recorded expiry is more than 5 minutes ahead;
\* otherwise it requests a new token and caches it with its expiry; a cached
\* token is never handed out within 5 minutes of its expiry; when the
\* credential call fails it returns None and leaves token and expiry unchanged.
C22_TokenRefreshedBeforeExpiry ==
    \A k \in 1..Len(tokenLog) :
       LET c == tokenLog[k]
       IN  /\ CachedAhead(k) =>
                /\ ~c.called
                /\ c.result = c.token
                /\ c.token_after = c.token /\ c.expires_after = c.expires
           /\ ~CachedAhead(k) =>
                /\ c.called
                /\ ~c.failed =>
                      /\ c.result = c.fresh
                      /\ c.token_after = c.fresh
                      /\ c.expires_after = <<fromtimestamp(c.expires_on)>>
                /\ c.failed =>
                      /\ c.result = NoneVal
                      /\ c.token_after = c.token /\ c.expires_after = c.expires
           /\ (~c.called /\ c.result # NoneVal) =>
                c.expires[1] - c.now > RefreshMargin

\* C22 witness: a token was fetched, handed out again from the cache a minute
\* later, and a minute after that, 5 minutes before its expiry, the refresh failed
C22_Witness ==
    /\ Len(tokenLog) = 3
    /\ tokenLog[1].called /\ ~tokenLog[1].failed
    /\ ~tokenLog[2].called /\ tokenLog[2].result = tokenLog[1].fresh
    /\ tokenLog[3].called /\ tokenLog[3].failed
    /\ tokenLog[3].expires[1] - tokenLog[3].now = RefreshMargin
    /\ self_token = tokenLog[1].fresh

\* ======================================================================
\* Dashboard: streamlit_voice_app.py, the thread receive_audio_and_playback
\* ======================================================================

\* A frame on connection._message_queue: raw is "object" for a JSON object, "array"
\* for JSON that is not an object, anything else is not JSON. arg is the value the
\* branch for this type reads ('session' id, 'transcript', 'delta', response id).
DEvent(raw, type, arg, response_id, item_id) ==
    [raw |-> raw, type |-> type, arg |-> arg, response_id |-> response_id,
     item_id |-> item_id]

\* base64.b64decode on the payloads used here (None: binascii.Error)
b64decode(s) ==
    CASE s = "" -> ""
      [] s = "AQA=" -> "0100"
      [] s = "AgA=" -> "0200"
      [] OTHER -> NoneVal

\* session.get('id')[:8]
First8(id) == IF Len(id) <= 8 THEN id ELSE "session-"

\* The state the loop works on
DashState ==
    [thread |-> recvThread, exit |-> recvExit, player |-> audio_player,
     current_response_id |-> current_response_id,
     last_audio_item_id |-> last_audio_item_id, messages |-> messages,
     current_assistant_response |-> current_assistant_response,
     assistant_responding |-> assistant_responding, user_speaking |-> user_speaking,
     sent |-> dashSent, connected |-> dashConnected]

\* AudioPlayerAsync.terminate / stop / add_data
terminate(player) == [player EXCEPT !.queue = <<>>, !.terminated = TRUE]
stop(player) == [player EXCEPT !.queue = <<>>, !.playing = FALSE]
add_data(player, data) ==
    IF player.playing \/ player.queue = <<>>
    THEN [player EXCEPT !.queue = Append(@, data), !.playing = TRUE]
    ELSE player

\* An exception that is not a JSONDecodeError leaves the while loop through the
\* outer `except Exception`; `finally` terminates the player.
LoopRaised(s) == [s EXCEPT !.thread = "ended", !.exit = "error",
                           !.player = terminate(s.player)]

\* VoiceLiveConnection.send: writes only `if self._ws and self._connected`, and
\* says nothing otherwise; sendFails: self._ws.send raises
\* The body of the while loop for one event
handle_event(s, event, sendFails) ==
    IF event.raw \notin {"object", "array"} THEN s              \* JSONDecodeError
    ELSE IF event.raw = "array" THEN LoopRaised(s)               \* event.get
    ELSE CASE event.type = "session.created" ->
                IF Get(event.arg) = NoneVal THEN LoopRaised(s)   \* session.get
                ELSE [s EXCEPT !.messages =
                         Append(@, [type |-> "system",
                                    content |-> "Connected:" \o First8(event.arg)])]
           [] event.type = "conversation.item.input_audio_transcription.completed" ->
                IF Truthy(event.arg)
                THEN [s EXCEPT !.messages = Append(@, [type |-> "user",
                                                       content |-> event.arg]),
                               !.user_speaking = FALSE]
                ELSE s
           [] event.type = "response.audio_transcript.delta" ->
                IF Truthy(event.arg)
                THEN [s EXCEPT !.current_assistant_response =
                         (IF @ = Missing THEN "" ELSE @) \o event.arg]
                ELSE s
           [] event.type = "response.audio_transcript.done" ->
                IF Truthy(s.current_assistant_response)
                THEN [s EXCEPT !.messages =
                         Append(@, [type |-> "assistant",
                                    content |-> s.current_assistant_response]),
                               !.current_assistant_response = "",
                               !.assistant_responding = FALSE]
                ELSE s
           [] event.type = "response.created" ->
                [s EXCEPT !.current_response_id = Get(event.arg),
                          !.assistant_responding = TRUE,
                          !.current_assistant_response = ""]
           [] event.type = "response.audio.delta" ->
                IF Get(event.response_id) # s.current_response_id THEN s
                ELSE LET bytes_data == b64decode(IF event.arg = Missing THEN ""
                                                 ELSE event.arg)
                         s1 == [s EXCEPT !.last_audio_item_id = Get(event.item_id)]
                     IN  IF bytes_data = NoneVal THEN LoopRaised(s1)
                         ELSE IF bytes_data = "" THEN s1
                         ELSE [s1 EXCEPT !.player = add_data(@, bytes_data)]
           [] event.type = "input_audio_buffer.speech_started" ->
                LET s1 == [s EXCEPT !.user_speaking = TRUE,
                                    !.assistant_responding = FALSE,
                                    !.player = stop(@),
                                    !.current_response_id = NoneVal]
                IN  IF ~s.connected THEN s1
                    ELSE IF sendFails THEN LoopRaised(s1)
                    ELSE [s1 EXCEPT !.sent = Append(@, "response.cancel")]
           [] event.type = "input_audio_buffer.speech_stopped" ->
                [s EXCEPT !.user_speaking = FALSE]
           [] event.type = "response.audio.done" ->
                [s EXCEPT !.assistant_responding = FALSE]
           [] event.type = "error" ->
                [s EXCEPT !.messages = Append(@, [type |-> "system",
                                                  content |-> "Error"])]
           [] OTHER -> s

\* One turn of `while not stop_event.is_set()` with an event on the queue
receive_audio_and_playback ==
    /\ recvThread = "running"
    /\ ~stop_event
    /\ connQueue # <<>>
    /\ connQueue' = Tail(connQueue)
    /\ \E sendFails \in BOOLEAN :
         LET s == handle_event(DashState, Head(connQueue), sendFails)
         IN  /\ recvThread' = s.thread
             /\ recvExit' = s.exit
             /\ audio_player' = s.player
             /\ current_response_id' = s.current_response_id
             /\ last_audio_item_id' = s.last_audio_item_id
             /\ messages' = s.messages
             /\ current_assistant_response' = s.current_assistant_response
             /\ assistant_responding' = s.assistant_responding
             /\ user_speaking' = s.user_speaking
             /\ dashSent' = s.sent
             /\ dashLog' = Append(dashLog,
                    [event |-> Head(connQueue),
                     current |-> current_response_id,
                     queued |-> Len(s.player.queue) > Len(audio_player.queue),
                     queue |-> s.player.queue,
                     playing |-> s.player.playing,
                     cancelled |-> Len(s.sent) > Len(dashSent)])
    /\ UNCHANGED <<stop_event, streaming_active, ndash, dashConnected, sendThread,
                   lingering>>
    /\ UNCHANGED <<appVars, proxyVars, voiceVars, apiVars>>

\* The loop sees the stop flag: it ends and `finally` terminates the player.
receive_audio_and_playback_stops ==
    /\ recvThread = "running"
    /\ stop_event
    /\ recvThread' = "ended"
    /\ recvExit' = "stop"
    /\ audio_player' = terminate(audio_player)
    /\ UNCHANGED <<stop_event, streaming_active, connQueue, ndash, current_response_id,
                   last_audio_item_id, messages, current_assistant_response,
                   assistant_responding, user_speaking, dashSent, dashConnected, dashLog,
                   sendThread, lingering>>
    /\ UNCHANGED <<appVars, proxyVars, voiceVars, apiVars>>

\* AudioPlayerAsync.callback: the sound device takes the block at the head
callback ==
    /\ audio_player.playing
    /\ ~audio_player.terminated
    /\ audio_player.queue # <<>>
    /\ audio_player' = [audio_player EXCEPT !.queue = Tail(@)]
    /\ UNCHANGED <<stop_event, streaming_active, recvThread, recvExit, connQueue, ndash,
                   current_response_id, last_audio_item_id, messages,
                   current_assistant_response, assistant_responding, user_speaking,
                   dashSent, dashConnected, dashLog,
                   sendThread, lingering>>
    /\ UNCHANGED <<appVars, proxyVars, voiceVars, apiVars>>

\* VoiceLiveConnection.connect.on_message: the socket thread queues a frame
on_message(event) ==
    /\ ndash < MaxDashMsgs
    /\ ndash' = ndash + 1
    /\ connQueue' = Append(connQueue, event)
    /\ UNCHANGED <<stop_event, streaming_active, recvThread, recvExit, audio_player,
                   current_response_id, last_audio_item_id, messages,
                   current_assistant_response, assistant_responding, user_speaking,
                   dashSent, dashConnected, dashLog,
                   sendThread, lingering>>
    /\ UNCHANGED <<appVars, proxyVars, voiceVars, apiVars>>

\* VoiceLiveConnection.connect.on_close: the service or the network ends the socket
connection_on_close ==
    /\ dashConnected
    /\ dashConnected' = FALSE
    /\ UNCHANGED <<stop_event, streaming_active, recvThread, recvExit, audio_player,
                   connQueue, ndash, current_response_id, last_audio_item_id, messages,
                   current_assistant_response, assistant_responding, user_speaking,
                   dashSent, dashLog, sendThread, lingering>>
    /\ UNCHANGED <<appVars, proxyVars, voiceVars, apiVars>>

\* 1 for a thread that is running
Alive(thread) == IF thread = "running" THEN 1 ELSE 0

\* The microphone button while idle: clears the flag and starts two new threads,
\* which replace st.session_state.audio_threads; the new receive thread has its
\* own locals and its own AudioPlayerAsync. Threads of an earlier start that are
\* still running go on, on the same connection.
MicStart ==
    /\ ~streaming_active
    /\ ~stop_event
    /\ lingering.send + Alive(sendThread) <= MaxLingering
    /\ lingering.receive + Alive(recvThread) <= MaxLingering
    /\ streaming_active' = TRUE
    /\ lingering' = [send |-> lingering.send + Alive(sendThread),
                     receive |-> lingering.receive + Alive(recvThread)]
    /\ sendThread' = "running"
    /\ recvThread' = "running"
    /\ recvExit' = ""
    /\ audio_player' = [playing |-> FALSE, queue |-> <<>>, terminated |-> FALSE]
    /\ current_response_id' = NoneVal
    /\ last_audio_item_id' = NoneVal
    /\ UNCHANGED <<stop_event, connQueue, ndash, messages, current_assistant_response,
                   assistant_responding, user_speaking, dashSent, dashConnected, dashLog>>
    /\ UNCHANGED <<appVars, proxyVars, voiceVars, apiVars>>

\* The stop button: stop_event.set() ...
MicStop ==
    /\ streaming_active
    /\ stop_event' = TRUE
    /\ streaming_active' = FALSE
    /\ UNCHANGED <<recvThread, recvExit, audio_player, connQueue, ndash,
                   current_response_id, last_audio_item_id, messages,
                   current_assistant_response, assistant_responding, user_speaking,
                   dashSent, dashConnected, dashLog,
                   sendThread, lingering>>
    /\ UNCHANGED <<appVars, proxyVars, voiceVars, apiVars>>

\* ... and, after thread.join(timeout=2) on each thread that is alive,
\* stop_event.clear(): join returns when the thread has ended or when the two
\* seconds are over, so the flag is cleared whether or not the threads have ended
MicStopJoined ==
    /\ stop_event
    /\ stop_event' = FALSE
    /\ UNCHANGED <<streaming_active, recvThread, recvExit, audio_player, connQueue, ndash,
                   current_response_id, last_audio_item_id, messages,
                   current_assistant_response, assistant_responding, user_speaking,
                   dashSent, dashConnected, dashLog,
                   sendThread, lingering>>
    /\ UNCHANGED <<appVars, proxyVars, voiceVars, apiVars>>

\* listen_and_send_audio: `while not stop_event.is_set()` sees the flag, or
\* the stream or connection.send raises; `finally` closes the stream
dash_listen_and_send_audio_ends ==
    /\ sendThread = "running"
    /\ \E raised \in BOOLEAN : stop_event \/ raised
    /\ sendThread' = "ended"
    /\ UNCHANGED <<stop_event, streaming_active, recvThread, recvExit, audio_player,
                   connQueue, ndash, current_response_id, last_audio_item_id, messages,
                   current_assistant_response, assistant_responding, user_speaking,
                   dashSent, dashConnected, dashLog, lingering>>
    /\ UNCHANGED <<appVars, proxyVars, voiceVars, apiVars>>

\* A thread of an earlier start sees the flag set by a later stop, or raises
lingering_thread_ends(kind) ==
    /\ lingering[kind] > 0
    /\ \E raised \in BOOLEAN : stop_event \/ raised
    /\ lingering' = [lingering EXCEPT ![kind] = @ - 1]
    /\ UNCHANGED <<stop_event, streaming_active, recvThread, recvExit, audio_player,
                   connQueue, ndash, current_response_id, last_audio_item_id, messages,
                   current_assistant_response, assistant_responding, user_speaking,
                   dashSent, dashConnected, dashLog, sendThread>>
    /\ UNCHANGED <<appVars, proxyVars, voiceVars, apiVars>>

\* receive_audio_and_playback of an earlier start: connection.recv() takes the
\* event at the head of the connection's queue away from the current thread
lingering_thread_recv ==
    /\ lingering.receive > 0
    /\ ~stop_event
    /\ connQueue # <<>>
    /\ connQueue' = Tail(connQueue)
    /\ UNCHANGED <<stop_event, streaming_active, recvThread, recvExit, audio_player,
                   ndash, current_response_id, last_audio_item_id, messages,
                   current_assistant_response, assistant_responding, user_speaking,
                   dashSent, dashConnected, dashLog, sendThread, lingering>>
    /\ UNCHANGED <<appVars, proxyVars, voiceVars, apiVars>>

DashMsgs ==
    {DEvent("oops", Missing, Missing, Missing, Missing),
     DEvent("array", Missing, Missing, Missing, Missing),
     DEvent("object", "session.created", "session-0001", Missing, Missing),
     DEvent("object", "session.created", Missing, Missing, Missing),
     DEvent("object", "response.created", "r1", Missing, Missing),
     DEvent("object", "response.audio.delta", "AQA=", "r1", "i1"),
     DEvent("object", "response.audio.delta", "A", "r1", "i1"),
     DEvent("object", "response.created", "r2", Missing, Missing),
     DEvent("object", "response.audio.delta", "AgA=", Missing, "i2"),
     DEvent("object", "input_audio_buffer.speech_started", Missing, Missing, Missing),
     DEvent("object", "response.audio_transcript.delta", "x", Missing, Missing),
     DEvent("object", "response.audio_transcript.done", Missing, Missing, Missing)}

DashNext ==
    \/ MicStart
    \/ MicStop
    \/ MicStopJoined
    \/ \E event \in DashMsgs : on_message(event)
    \/ connection_on_close
    \/ receive_audio_and_playback
    \/ receive_audio_and_playback_stops
    \/ callback

SpecDashboard == Init /\ [][DashNext]_vars

\* The loop handled event k of dashLog as an event of this type
DashHandled(k, type) ==
    dashLog[k].event.raw = "object" /\ dashLog[k].event.type = type

\* Event j is the most recent response.created before event k, and no
\* speech_started was handled between them
MostRecentCreated(j, k) ==
    /\ j < k
    /\ DashHandled(j, "response.created")
    /\ \A i \in (j + 1)..(k - 1) :
          /\ ~DashHandled(i, "response.created")
          /\ ~DashHandled(i, "input_audio_buffer.speech_started")

\* Chunks reach the playback queue only from the current response
QueuedOnlyFromCurrentResponse ==
    \A k \in 1..Len(dashLog) :
       dashLog[k].queued =>
          \E j \in 1..(k - 1) :
             /\ MostRecentCreated(j, k)
             /\ dashLog[k].event.response_id = dashLog[j].event.arg

\* Handling speech_started leaves playback stopped, the queue empty and a
\* response.cancel sent
SpeechStartedStopsAndCancels ==
    \A k \in 1..Len(dashLog) :
       DashHandled(k, "input_audio_buffer.speech_started") =>
          /\ ~dashLog[k].playing
          /\ dashLog[k].queue = <<>>
          /\ dashLog[k].cancelled

\* C18 (as claimed): the dashboard loop queues an audio chunk only if its
\* response_id equals the id of the most recent response.created event and no
\* speech_started was handled since; after a speech_started event is handled,
\* playback is stopped, the queue is empty, a response.cancel has been sent and no
\* audio is queued until the next response.created.
C18_AudioOnlyFromCurrentResponse ==
    QueuedOnlyFromCurrentResponse /\ SpeechStartedStopsAndCancels

\* ---- the microphone button: threads are started and stopped
MicMsgs ==
    {DEvent("object", "response.created", "r1", Missing, Missing),
     DEvent("object", "response.audio.delta", "AQA=", "r1", "i1")}

MicNext ==
    \/ MicStart
    \/ MicStop
    \/ MicStopJoined
    \/ dash_listen_and_send_audio_ends
    \/ receive_audio_and_playback_stops
    \/ \E kind \in {"send", "receive"} : lingering_thread_ends(kind)
    \/ \E event \in MicMsgs : on_message(event)
    \/ receive_audio_and_playback
    \/ lingering_thread_recv

SpecMic == Init /\ [][MicNext]_vars

\* Threads of each kind that are running on the connection
CaptureThreads == lingering.send + Alive(sendThread)
ReceiveThreads == lingering.receive + Alive(recvThread)

\* C24 (as claimed): pressing stop waits for the threads: when the stop flag is
\* cleared again after the stop button, the capture thread and the receive
\* thread have ended, so after any sequence of start and stop presses at most
\* one capture thread and at most one receive thread use the connection.
C24_StopWaitsForThreads ==
    /\ [][(stop_event /\ ~stop_event') => (CaptureThreads' = 0 /\ ReceiveThreads' = 0)]_vars
    /\ [](CaptureThreads <= 1 /\ ReceiveThreads <= 1)

\* C6 (as claimed): whatever a received event makes the loop body raise, the loop
\* goes on with the next event; the loop ends, and the audio player is terminated,
\* only when the stop flag was set.
C6_PlayerTerminatedOnlyOnStop ==
    /\ recvThread = "ended" => recvExit = "stop"
    /\ audio_player.terminated => recvExit = "stop"

\* ======================================================================
\* chainlit_voice_app.py: chat sessions over the module-level connection_state
\* ======================================================================

\* A VoiceLiveConnection: who made it, where its socket is, who closed it
Conn(owner) == [owner |-> owner, state |-> "connecting", closedBy |-> ""]

\* connection.close() on connection_state['connection'], then the entry is None
CloseCurrent(cs, by) ==
    IF connection_state.connection # 0
    THEN [cs EXCEPT ![connection_state.connection] =
             [@ EXCEPT !.state = IF @ = "closed" THEN "closed" ELSE "closing",
                       !.closedBy = IF @ = "" THEN by ELSE @]]
    ELSE cs

\* ensure_connection(start_audio) by session s, from the dict cs: nothing to do
\* when a connection is up; otherwise a new VoiceLiveConnection replaces
\* cs['connection'], the wait loop sees on_open (opened) or gives up, and
\* 'streaming' is overwritten. config: the environment has endpoint, project and
\* agent. The result is the dict and the connections afterwards.
ensure_connection(cs, s, start_audio, config, opened) ==
    IF cs.connection # 0 /\ cs.connected
    THEN [state |-> [cs EXCEPT !.streaming = IF start_audio THEN TRUE ELSE @],
          conns |-> conns]
    ELSE IF ~config
    THEN [state |-> cs, conns |-> conns]
    ELSE [state |-> [cs EXCEPT !.connection = Len(conns) + 1,
                               !.connected = IF opened THEN TRUE ELSE @,
                               !.streaming = start_audio],
          conns |-> Append(conns, [Conn(s) EXCEPT
                                     !.state = IF opened THEN "open" ELSE "connecting"])]

\* interrupt_assistant: response.cancel, clear the playback, reset the flag; a
\* send that raises skips the rest
interrupt_assistant(cs, sendFails) ==
    IF cs.connection # 0 /\ cs.connected /\ sendFails THEN cs
    ELSE [cs EXCEPT !.assistant_responding = FALSE]

\* connection_state['audio_thread'].is_alive()
is_alive(t) == t.state \in {"waiting", "capturing"}

\* `if not (audio_thread and audio_thread.is_alive())`: a new thread runs
\* listen_and_send_audio and replaces the entry
StartAudioThread(t) ==
    IF is_alive(t) THEN t ELSE [state |-> "waiting", pc |-> "idle", conn |-> 0]

\* @cl.on_chat_start
start(s) ==
    /\ nvoice < MaxVoiceOps
    /\ s \notin sessions
    /\ sessions' = sessions \cup {s}
    /\ voice_stop_event' = FALSE
    /\ nvoice' = nvoice + 1
    /\ voice_response' = [voice_response EXCEPT ![s] = ""]
    /\ voice_audio_player' = [voice_audio_player EXCEPT !.is_playing = TRUE]
    /\ message_processor' = [message_processor EXCEPT ![s] = "running"]
    /\ UNCHANGED <<connection_state, conns, ws_message_queue, voiceLog, nvmsg>>
    /\ UNCHANGED captureVars
    /\ UNCHANGED <<appVars, proxyVars, dashVars, apiVars>>

\* @cl.action_callback("start_voice") with start_voice_conversation
start_voice(s) ==
    /\ nvoice < MaxVoiceOps
    /\ s \in sessions
    /\ nvoice' = nvoice + 1
    /\ IF connection_state.connected
       THEN UNCHANGED <<connection_state, conns, voice_stop_event, captureVars>>
       ELSE /\ voice_stop_event' = FALSE
            /\ voice_stopped' = FALSE
            /\ UNCHANGED voice_appends
            /\ \E config \in BOOLEAN, opened \in BOOLEAN :
                 LET r == ensure_connection(connection_state, s, TRUE, config, opened)
                 IN  /\ connection_state' =
                           [r.state EXCEPT !.streaming = IF r.state.connected THEN TRUE
                                                         ELSE @]
                     /\ conns' = r.conns
                     /\ audio_thread' = IF r.state.connected
                                        THEN StartAudioThread(audio_thread)
                                        ELSE audio_thread
    /\ UNCHANGED <<sessions, voiceMsgVars>>
    /\ UNCHANGED <<appVars, proxyVars, dashVars, apiVars>>

\* @cl.action_callback("stop_voice") with stop_voice_conversation
stop_voice(s) ==
    /\ nvoice < MaxVoiceOps
    /\ s \in sessions
    /\ nvoice' = nvoice + 1
    /\ IF ~connection_state.connected
       THEN UNCHANGED <<connection_state, conns, voice_stop_event, voice_stopped>>
       ELSE /\ connection_state' = [connection_state EXCEPT !.streaming = FALSE,
                                       !.connected = FALSE, !.connection = 0]
            /\ conns' = CloseCurrent(conns, s)
            /\ voice_stop_event' = TRUE
            /\ voice_stopped' = TRUE
    /\ UNCHANGED <<sessions, voiceMsgVars, audio_thread, voice_appends>>
    /\ UNCHANGED <<appVars, proxyVars, dashVars, apiVars>>

\* @cl.on_chat_end
end(s) ==
    /\ nvoice < MaxVoiceOps
    /\ s \in sessions
    /\ nvoice' = nvoice + 1
    /\ sessions' = sessions \ {s}
    /\ connection_state' = [connection_state EXCEPT !.streaming = FALSE,
                               !.connected = FALSE, !.connection = 0]
    /\ conns' = CloseCurrent(conns, s)
    /\ voice_audio_player' = [voice_audio_player EXCEPT !.is_playing = FALSE]
    /\ voice_stop_event' = TRUE
    /\ voice_stopped' = TRUE
    /\ message_processor' = [message_processor EXCEPT ![s] = "cancelled"]
    /\ UNCHANGED <<ws_message_queue, voice_response, voiceLog, nvmsg, audio_thread,
                   voice_appends>>
    /\ UNCHANGED <<appVars, proxyVars, dashVars, apiVars>>

\* @cl.on_message: interrupt_assistant when connected, ensure_connection(False),
\* send_text_to_agent
main(s) ==
    /\ nvoice < MaxVoiceOps
    /\ s \in sessions
    /\ nvoice' = nvoice + 1
    /\ \E config \in BOOLEAN, opened \in BOOLEAN, sendFails \in BOOLEAN :
         LET raised == /\ connection_state.connection # 0
                       /\ connection_state.connected
                       /\ sendFails
             cs == IF connection_state.connected
                   THEN interrupt_assistant(connection_state, sendFails)
                   ELSE connection_state
             r == ensure_connection(cs, s, FALSE, config, opened)
         IN  /\ connection_state' = r.state
             /\ conns' = r.conns
             /\ IF connection_state.connected /\ ~raised
                THEN /\ voice_audio_player' = [voice_audio_player EXCEPT
                                                  !.audio_queue = <<>>]
                     /\ voice_response' = [voice_response EXCEPT ![s] = ""]
                ELSE UNCHANGED <<voice_audio_player, voice_response>>
    /\ UNCHANGED <<voice_stop_event, sessions, ws_message_queue, voiceLog, nvmsg,
                   message_processor>>
    /\ UNCHANGED captureVars
    /\ UNCHANGED <<appVars, proxyVars, dashVars, apiVars>>

\* on_open of connection c (a module-level callback: it sets the shared flag)
on_open(c) ==
    /\ conns[c].state = "connecting"
    /\ conns' = [conns EXCEPT ![c].state = "open"]
    /\ connection_state' = [connection_state EXCEPT !.connected = TRUE]
    /\ UNCHANGED <<voice_stop_event, sessions, nvoice, voiceMsgVars>>
    /\ UNCHANGED captureVars
    /\ UNCHANGED <<appVars, proxyVars, dashVars, apiVars>>

\* on_error of connection c
on_error(c) ==
    /\ conns[c].state \in {"connecting", "open"}
    /\ conns' = [conns EXCEPT ![c].state = "closing",
                              ![c].closedBy = IF @ = "" THEN "server" ELSE @]
    /\ connection_state' = [connection_state EXCEPT !.connected = FALSE,
                               !.session_ready = FALSE]
    /\ UNCHANGED <<voice_stop_event, sessions, nvoice, voiceMsgVars>>
    /\ UNCHANGED captureVars
    /\ UNCHANGED <<appVars, proxyVars, dashVars, apiVars>>

\* on_close of connection c, after close() or when the service closed it
on_close(c) ==
    /\ conns[c].state \in {"open", "closing"}
    /\ conns' = [conns EXCEPT ![c].state = "closed",
                              ![c].closedBy = IF @ = "" THEN "server" ELSE @]
    /\ connection_state' = [connection_state EXCEPT !.connected = FALSE,
                               !.session_ready = FALSE, !.streaming = FALSE]
    /\ UNCHANGED <<voice_stop_event, sessions, nvoice, voiceMsgVars>>
    /\ UNCHANGED captureVars
    /\ UNCHANGED <<appVars, proxyVars, dashVars, apiVars>>

\* handle_websocket_message for session.created of the open connection c
handle_session_created(c) ==
    /\ conns[c].state = "open"
    /\ ~connection_state.session_ready
    /\ connection_state' = [connection_state EXCEPT !.connected = TRUE,
                               !.session_ready = TRUE]
    /\ audio_thread' = IF connection_state.streaming THEN StartAudioThread(audio_thread)
                       ELSE audio_thread
    /\ UNCHANGED <<voice_stop_event, conns, sessions, nvoice, voiceMsgVars, voice_appends,
                   voice_stopped>>
    /\ UNCHANGED <<appVars, proxyVars, dashVars, apiVars>>

\* A frame on ws_message_queue: raw is "object" for a JSON object, anything else
\* makes json.loads or event.get raise; arg is the 'delta' or 'transcript'
VEvent(raw, type, arg) == [raw |-> raw, type |-> type, arg |-> arg]

\* AudioPlayerAsync.add_audio_chunk / clear
add_audio_chunk(player, audio_data) ==
    IF player.is_playing THEN [player EXCEPT !.audio_queue = Append(@, audio_data)]
    ELSE player

clear(player) == [player EXCEPT !.audio_queue = <<>>]

\* What handle_websocket_message works on, for the chat session s whose
\* process_websocket_messages task took the frame: the module's dict and player,
\* the session's current_assistant_response, and what was written to the socket
VoiceState(s) ==
    [cs |-> connection_state, player |-> voice_audio_player,
     response |-> voice_response[s], sent |-> <<>>]

\* VoiceLiveConnection.send_message on connection_state['connection']: written
\* when the socket is up, a warning otherwise; the write itself can raise
CanSendMessage(cs) == cs.connection # 0 /\ conns[cs.connection].state = "open"

\* handle_websocket_message, input_audio_buffer.speech_started: the flag, then
\* inside one try response.cancel (when the dict has a connection) and
\* audio_player.clear(); a send that raises skips the clear.
speech_started(v, sendFails) ==
    LET v1 == [v EXCEPT !.cs.user_speaking = TRUE]
    IN  IF v.cs.connection # 0 /\ CanSendMessage(v.cs)
        THEN IF sendFails THEN v1
             ELSE [v1 EXCEPT !.sent = Append(@, "response.cancel"),
                             !.player = clear(@)]
        ELSE [v1 EXCEPT !.player = clear(@)]

\* The body of handle_websocket_message; every exception is caught and logged.
voice_handle_event(v, event, sendFails) ==
    IF event.raw # "object" THEN v
    ELSE CASE event.type = "session.created" ->
                [v EXCEPT !.cs.connected = TRUE, !.cs.session_ready = TRUE]
           [] event.type = "input_audio_buffer.speech_started" ->
                speech_started(v, sendFails)
           [] event.type = "input_audio_buffer.speech_stopped" ->
                [v EXCEPT !.cs.user_speaking = FALSE]
           [] event.type = "conversation.item.input_audio_transcription.completed" ->
                IF Truthy(event.arg) THEN [v EXCEPT !.cs.user_speaking = FALSE] ELSE v
           [] event.type = "response.created" ->
                [v EXCEPT !.cs.assistant_responding = TRUE, !.response = ""]
           [] event.type = "response.audio_transcript.delta" ->
                IF Truthy(event.arg)
                THEN [v EXCEPT !.response = (IF @ = Missing THEN "" ELSE @) \o event.arg]
                ELSE v
           [] event.type = "response.audio_transcript.done" ->
                [v EXCEPT !.response = "", !.cs.assistant_responding = FALSE]
           [] event.type = "response.audio.delta" ->
                IF Truthy(event.arg) /\ v.cs.assistant_responding
                THEN [v EXCEPT !.player = add_audio_chunk(@, event.arg)]
                ELSE v
           [] event.type \in {"response.audio.done", "response.done", "error"} ->
                [v EXCEPT !.cs.assistant_responding = FALSE]
           [] OTHER -> v

\* on_message of the open connection c (a module-level callback): the socket
\* thread puts the frame on the module's queue
ws_on_message(c, event) ==
    /\ conns[c].state = "open"
    /\ nvmsg < MaxVoiceMsgs
    /\ nvmsg' = nvmsg + 1
    /\ ws_message_queue' = Append(ws_message_queue, event)
    /\ UNCHANGED <<connection_state, voice_stop_event, conns, sessions, nvoice,
                   voice_audio_player, voice_response, voiceLog, message_processor>>
    /\ UNCHANGED captureVars
    /\ UNCHANGED <<appVars, proxyVars, dashVars, apiVars>>

\* Faulty variant, for comparison: a frame that is not JSON ends the task
process_websocket_messages_uncaught(event) ==
    IF event.raw # "object" THEN "ended" ELSE "running"

\* process_websocket_messages after one frame: handle_websocket_message catches
\* and logs every Exception of its body, and the loop's own `except Exception`
\* sleeps and goes on: the task keeps running whatever the frame was
process_websocket_messages(event) == "running"

\* process_websocket_messages of chat session s takes the frame at the head of
\* the queue and awaits handle_websocket_message
handle_websocket_message(s) ==
    /\ s \in sessions
    /\ message_processor[s] = "running"
    /\ ws_message_queue # <<>>
    /\ ws_message_queue' = Tail(ws_message_queue)
    /\ \E sendFails \in BOOLEAN :
         LET event == Head(ws_message_queue)
             v == voice_handle_event(VoiceState(s), event, sendFails)
         IN  /\ connection_state' = v.cs
             /\ voice_audio_player' = v.player
             /\ voice_response' = [voice_response EXCEPT ![s] = v.response]
             /\ voiceLog' = Append(voiceLog,
                    [type |-> event.type, session |-> s,
                     hadConnection |-> connection_state.connection # 0,
                     sent |-> v.sent,
                     queued |-> Len(v.player.audio_queue)
                                   > Len(voice_audio_player.audio_queue),
                     queueAfter |-> Len(v.player.audio_queue)])
             /\ audio_thread' = IF /\ event.raw = "object"
                                   /\ event.type = "session.created"
                                   /\ connection_state.streaming
                                THEN StartAudioThread(audio_thread)
                                ELSE audio_thread
             /\ message_processor' = [message_processor EXCEPT
                                         ![s] = process_websocket_messages(event)]
    /\ UNCHANGED <<voice_stop_event, conns, sessions, nvoice, nvmsg, voice_appends,
                   voice_stopped>>
    /\ UNCHANGED <<appVars, proxyVars, dashVars, apiVars>>

\* AudioPlayerAsync._player_worker: the player thread takes a chunk and plays it
_player_worker ==
    /\ voice_audio_player.is_playing
    /\ voice_audio_player.audio_queue # <<>>
    /\ voice_audio_player' = [voice_audio_player EXCEPT !.audio_queue = Tail(@)]
    /\ UNCHANGED <<connection_state, voice_stop_event, conns, sessions, nvoice,
                   ws_message_queue, voice_response, voiceLog, nvmsg, message_processor>>
    /\ UNCHANGED captureVars
    /\ UNCHANGED <<appVars, proxyVars, dashVars, apiVars>>

\* ---- the capture thread: listen_and_send_audio and its audio_callback, which
\* the sound device's thread runs while the InputStream is open

\* The frame of the capture thread's actions
capture_frame ==
    /\ UNCHANGED <<connection_state, voice_stop_event, conns, sessions, nvoice,
                   voiceMsgVars, voice_stopped>>
    /\ UNCHANGED <<appVars, proxyVars, dashVars, apiVars>>

\* `while not connected and streaming and not stop_event.is_set()`: the wait for
\* the connection is over; the InputStream opens, or raises and the thread ends
listen_and_send_audio_wait ==
    /\ audio_thread.state = "waiting"
    /\ ~(~connection_state.connected /\ connection_state.streaming /\ ~voice_stop_event)
    /\ \E opens \in BOOLEAN :
         audio_thread' = [audio_thread EXCEPT !.state = IF opens THEN "capturing"
                                                        ELSE "ended"]
    /\ UNCHANGED voice_appends
    /\ capture_frame

\* `while connection_state['streaming'] and not stop_event.is_set()`
KeepsCapturing(cs, stop_set) == cs.streaming /\ ~stop_set

\* The poll loop sees that it has to stop; leaving the `with` block closes the
\* stream once the callback that is running has returned
listen_and_send_audio_stops ==
    /\ audio_thread.state = "capturing"
    /\ audio_thread.pc = "idle"
    /\ ~KeepsCapturing(connection_state, voice_stop_event)
    /\ audio_thread' = [audio_thread EXCEPT !.state = "ended"]
    /\ UNCHANGED voice_appends
    /\ capture_frame

\* audio_callback: `if connection_state['connected'] and connection_state['streaming']`
audio_callback ==
    /\ audio_thread.state = "capturing"
    /\ audio_thread.pc = "idle"
    /\ Len(voice_appends) < MaxAppends
    /\ connection_state.connected /\ connection_state.streaming
    /\ audio_thread' = [audio_thread EXCEPT !.pc = "encoded"]
    /\ UNCHANGED voice_appends
    /\ capture_frame

\* audio_callback, after the block was encoded: `if connection_state['connection']`
\* and, in send_message, `if self._websocket and self._connected`
audio_callback_send_message ==
    /\ audio_thread.pc = "encoded"
    /\ audio_thread' =
          IF CanSendMessage(connection_state)
          THEN [audio_thread EXCEPT !.pc = "writing", !.conn = connection_state.connection]
          ELSE [audio_thread EXCEPT !.pc = "idle"]
    /\ UNCHANGED voice_appends
    /\ capture_frame

\* send_message: self._websocket.send(...) writes the frame, or raises when the
\* socket has been closed in between
audio_callback_write ==
    /\ audio_thread.pc = "writing"
    /\ audio_thread' = [audio_thread EXCEPT !.pc = "idle", !.conn = 0]
    /\ voice_appends' =
          IF conns[audio_thread.conn].state = "open"
          THEN Append(voice_appends,
                      [conn |-> audio_thread.conn,
                       streaming |-> connection_state.streaming,
                       stopped |-> voice_stopped])
          ELSE voice_appends
    /\ capture_frame

CaptureThread ==
    \/ listen_and_send_audio_wait
    \/ listen_and_send_audio_stops
    \/ audio_callback
    \/ audio_callback_send_message
    \/ audio_callback_write

\* Frames of one assistant response that the user interrupts
VoiceMsgs ==
    {VEvent("oops", Missing, Missing),
     VEvent("object", "response.created", Missing),
     VEvent("object", "response.audio.delta", "AQA="),
     VEvent("object", "response.audio.done", Missing),
     VEvent("object", "input_audio_buffer.speech_started", Missing)}

VoiceNext ==
    \/ \E s \in Sessions : start(s)
    \/ \E s \in Sessions : start_voice(s)
    \/ \E s \in Sessions : stop_voice(s)
    \/ \E s \in Sessions : end(s)
    \/ \E s \in Sessions : main(s)
    \/ \E c \in 1..Len(conns) : on_open(c)
    \/ \E c \in 1..Len(conns) : on_error(c)
    \/ \E c \in 1..Len(conns) : on_close(c)
    \/ \E c \in 1..Len(conns) : handle_session_created(c)

SpecVoice == Init /\ [][VoiceNext]_vars

\* ---- one chat session talking: frames arrive, are handled, audio is played
VoiceEventsNext ==
    \/ start("s1")
    \/ start_voice("s1")
    \/ \E c \in 1..Len(conns) : on_open(c)
    \/ \E c \in 1..Len(conns), event \in VoiceMsgs : ws_on_message(c, event)
    \/ handle_websocket_message("s1")
    \/ _player_worker

SpecVoiceEvents == Init /\ [][VoiceEventsNext]_vars

\* ---- one chat session whose task handles the frames the socket thread queues;
\* the event loop keeps running the task
PumpMsgs ==
    {VEvent("oops", Missing, Missing),
     VEvent("object", "response.created", Missing),
     VEvent("object", "response.audio.delta", "AQA=")}

PumpNext ==
    \/ start("s1")
    \/ end("s1")
    \/ start_voice("s1")
    \/ \E c \in 1..Len(conns) : on_open(c)
    \/ \E c \in 1..Len(conns), event \in PumpMsgs : ws_on_message(c, event)
    \/ handle_websocket_message("s1")

SpecPump == Init /\ [][PumpNext]_vars /\ WF_vars(handle_websocket_message("s1"))

\* A step that handles a frame handles the one at the head of the queue, and only it
HandledInArrivalOrder ==
    [][voiceLog' # voiceLog =>
          /\ ws_message_queue # <<>>
          /\ ws_message_queue' = Tail(ws_message_queue)
          /\ voiceLog' = Append(voiceLog, voiceLog'[Len(voiceLog')])
          /\ voiceLog'[Len(voiceLog')].type = Head(ws_message_queue).type]_vars

\* The k-th queued frame is handled unless the task of the session is not running
EveryFrameHandled ==
    \A k \in 1..MaxVoiceMsgs :
       (nvmsg >= k) ~> (Len(voiceLog) >= k \/ message_processor["s1"] # "running")

\* The task ends in no other way than by the cancel of on_chat_end
PumpEndsOnlyByCancel == message_processor["s1"] \in {"none", "running", "cancelled"}

CaptureNext ==
    \/ \E s \in Sessions : start(s)
    \/ start_voice("s1")
    \/ stop_voice("s1")
    \/ end("s1")
    \/ main("s1")
    \/ \E c \in 1..Len(conns) : on_open(c)
    \/ \E c \in 1..Len(conns) : on_close(c)
    \/ \E c \in 1..Len(conns) : handle_session_created(c)
    \/ CaptureThread

SpecCapture == Init /\ [][CaptureNext]_vars /\ WF_vars(CaptureThread)

\* The capture thread has ended (or none was started)
CaptureEnded == ~is_alive(audio_thread)

\* Once the stop flag was set, the capture thread ends unless a new voice
\* conversation is started
CaptureThreadEnds == (voice_stopped /\ is_alive(audio_thread)) ~> (CaptureEnded \/ ~voice_stopped)

\* No append was written after streaming was set to false and the connection closed
NoAppendAfterStop == \A k \in 1..Len(voice_appends) : ~voice_appends[k].stopped

\* C21 (as claimed): after stop_voice_conversation or chat end has set the stop
\* flag, and while no new voice conversation is started, the capture thread
\* eventually terminates, and it sends no input_audio_buffer.append after
\* streaming was set to false and the connection was closed.
C21_CaptureStopsAfterStopFlag == CaptureThreadEnds /\ []NoAppendAfterStop

\* C17 (as claimed): once speech_started was handled, response.cancel was sent
\* when the dict had a connection, the playback queue was empty, and no audio
\* chunk was queued afterwards before the next response.created was handled.
C17_NoAudioAfterSpeechStarted ==
    \A k \in 1..Len(voiceLog) :
       voiceLog[k].type = "input_audio_buffer.speech_started" =>
          /\ voiceLog[k].hadConnection => voiceLog[k].sent = <<"response.cancel">>
          /\ voiceLog[k].queueAfter = 0
          /\ \A j \in (k + 1)..Len(voiceLog) :
                voiceLog[j].queued =>
                   \E i \in (k + 1)..(j - 1) : voiceLog[i].type = "response.created"

\* The dict's connection is open
CurrentOpen ==
    /\ connection_state.connection # 0
    /\ conns[connection_state.connection].state = "open"

\* This step is a close or error callback of connection c, which is not the
\* dict's connection: only on_error and on_close take another connection's
\* socket to "closing" or "closed"
StaleCallback(c) ==
    /\ c # connection_state.connection
    /\ conns[c].state # conns'[c].state
    /\ conns'[c].state \in {"closing", "closed"}

\* C23 (as claimed): a close or error callback of a connection that was already
\* replaced does not change the state of the current connection: while the new
\* connection is open, such a callback leaves connected and streaming as they are.
C23_StaleCallbackKeepsState ==
    [][\A c \in 1..Len(conns) :
          (CurrentOpen /\ StaleCallback(c)) =>
             /\ connection_state'.connected = connection_state.connected
             /\ connection_state'.streaming = connection_state.streaming]_vars

\* C7 (as claimed): a chat session never closes the connection that another chat
\* session opened: a connection is closed by its own session or by the service.
C7_SessionsIsolated ==
    \A c \in 1..Len(conns) : conns[c].closedBy \in {"", "server", conns[c].owner}

====
